---- MODULE Spec2Model ----
(***************************************************************************)
(* State-machine model of the sdbc client (go-surreal/sdbc): the           *)
(* constructor, the connection supervisor, the pending-request and the     *)
(* live-query registries, the writer (send), the reader (subscribe/read)   *)
(* and the per-frame dispatch tasks (handleMessage).                       *)
(*                                                                         *)
(* Go channels are unbuffered: a value passes from a dispatch task to its  *)
(* receiver in one joint step.  Timers (time.After) and the scheduler are  *)
(* nondeterministic.  A panic (send on a closed channel, close of a closed *)
(* channel) ends the program.                                              *)
(***************************************************************************)
EXTENDS Integers, Sequences, FiniteSets, TLC

\* ------------------------------------------------------------------ bounds

NumSends == 2        \* concurrent RPC callers (each performs one send)
NumClosers == 2      \* callers of Close
MaxResults == 2      \* response frames the server emits
MaxNotifs == 2       \* notification frames the server emits
MaxFaults == 1       \* faults of the environment: the peer drops the connection, the parent context ends
MaxElems == 3        \* elements of an array that arrives for a datetime
MaxCalls == 2        \* registry calls one goroutine makes
requestKeyLength == 16
bytesInUint64 == 8
MaxParams == 2       \* generated parameter names of a live query (len(vars))
MaxFrames == MaxResults + MaxNotifs + MaxFaults

Senders == 1..NumSends
Closers == 1..NumClosers
Tasks == 1..MaxFrames

\* correlation keys newRequestKey can return (two of the 62^16 strings)
Keys == {"kA", "kB"}
\* the key prepare mints for a caller is new or collides with another caller's:
\* up to the names of the keys, the first caller gets kA and the others any key
keysFor(s) == IF s = 1 THEN {"kA"} ELSE Keys
NoKey == "none"
NoChan == [type |-> "nil", id |-> 0]

\* ------------------------------------------------------------------ names

NameChars ==
    {"A","B","C","D","E","F","G","H","I","J","K","L","M","N","O","P","Q","R","S",
     "T","U","V","W","X","Y","Z",
     "a","b","c","d","e","f","g","h","i","j","k","l","m","n","o","p","q","r","s",
     "t","u","v","w","x","y","z",
     "0","1","2","3","4","5","6","7","8","9","_"}

\* regexName: ^[A-Za-z0-9_]+$ over a name given as its sequence of characters
regexName(name) ==
    /\ Len(name) >= 1
    /\ \A i \in 1..Len(name) : name[i] \in NameChars

\* the names a caller may put in Config.Namespace / Config.Database
Namespaces == { <<"t","_","n","s">>, <<"b","a","d","-","n">>, <<>> }
Databases == { <<"d","b","1">>, <<"m","y"," ","d","b">>, <<"d","$">> }

\* ------------------------------------------------------------------ errors

StatusNormalClosure == 1000
StatusGoingAway == 1001

\* websocket.CloseStatus(err): the close code of a CloseError, -1 otherwise
CloseStatus(err) ==
    CASE err = "closeNormal" -> StatusNormalClosure
      [] err = "closeGoingAway" -> StatusGoingAway
      [] OTHER -> -1

VARIABLES
    conf,         \* Config.Namespace, Config.Database
    ncPc,         \* position of NewClient
    ncErr,        \* what NewClient returned
    initLog,      \* the steps init has made, in order
    initResp,     \* init's resp: the response to its last DEFINE query
    conn,         \* c.conn: "nil", "open", "closed" (by the client), "dropped" (by the peer, with a close status)
    msgReader,    \* the message reader conn.Reader last returned: "fin" (read to EOF, or none yet), "unread"
    dials,        \* number of websocket.Dial calls
    readers,      \* number of reader tasks started
    connCtxDone,  \* c.connCtx is cancelled
    connClosed,   \* c.connClosed
    connMutex,    \* holder of c.connMutex: 0 when free, else the closer
    normalCloses, \* number of conn.Close(StatusNormalClosure) calls made by Close
    wg,           \* c.waitGroup counter
    readerPc,     \* the reader task: "none", "spawned", "running", "exited"
    wire,         \* frames the server has written and the reader has not read yet
    results,      \* number of response frames the server has emitted
    faults,       \* number of faults of the environment so far
    srvReqs,      \* requests the server has received
    srvLive,      \* live queries the server has registered (by the sender that asked)
    notified,     \* notifications the server has emitted, per live query
    reqStore,     \* requests.store: key -> channel
    lqStore,      \* liveQueries.store: id -> channel
    chanState,    \* per channel: "none", "open", "closed"
    sendPc,       \* per sender: position in send
    sendKind,     \* per sender: the call it makes, "query" or "live"; "off" when it makes none
    sendKey,      \* per sender: the key minted by prepare
    sendRes,      \* per sender: what send returned
    ctxDone,      \* per sender: the caller context is cancelled
    livePc,       \* per sender of kind live: position of Live and of its cleanup task
    lqRecv,       \* per sender of kind live: notifications its consumer has received, in order
    liveParams,   \* per sender of kind live: len(vars), the number of generated parameter names
    liveLog,      \* per sender of kind live: what its cleanup task has done, in order
    taskPc,       \* per dispatch task: "unborn", "spawned", "sending", "done"
    taskFrame,    \* per dispatch task: the frame it was started for
    taskCh,       \* per dispatch task: the channel its registry lookup returned
    buffers,      \* c.buffers: how many buffers were taken from the pool and how many put back
    closePc,      \* per closer: position in Close
    closeRes,     \* per closer: what Close returned
    panicked,     \* a goroutine has panicked
    subject,      \* codec: the value handed to cbor.Marshal and the target of cbor.Unmarshal
    encoded,      \* codec: what MarshalCBOR returned, or the item that arrived
    decoded,      \* codec: what UnmarshalCBOR returned and what it left in the target
    ops,          \* registries: per calling goroutine, the registry call it is in and its last result
    rng,          \* defaultRandBytes.rng: the words its next calls of Uint64 return
    requestKey,   \* what newRequestKey returned (a string, as its bytes)
    pool          \* the read path of response.go: the buffers of the pool and the bytes the tasks hold

vars == <<conf, ncPc, ncErr, initLog, initResp, conn, dials, readers, msgReader, connCtxDone, connClosed, connMutex,
          normalCloses, wg, readerPc, wire, results, faults, srvReqs, srvLive, notified, reqStore, lqStore,
          chanState, sendPc, sendKind, sendKey, sendRes, ctxDone, livePc, lqRecv, liveParams, liveLog,
          taskPc, taskFrame, taskCh, buffers, closePc, closeRes, panicked,
          subject, encoded, decoded, ops, rng, requestKey, pool>>

clientVars == <<conf, ncPc, ncErr, initLog, initResp, conn, dials, readers, msgReader, connCtxDone, connClosed, connMutex,
                normalCloses, wg, readerPc, wire, results, faults, srvReqs, srvLive, notified, reqStore,
                lqStore, chanState, sendPc, sendKind, sendKey, sendRes, ctxDone, livePc, lqRecv, liveParams,
                liveLog, taskPc, taskFrame, taskCh, buffers, closePc, closeRes, panicked, ops,
                rng, requestKey, pool>>
connVars == <<conn, dials, readers, msgReader, connCtxDone, connClosed, connMutex, normalCloses>>
codecVars == <<subject, encoded, decoded>>
keyVars == <<rng, requestKey>>
\* what neither a registry call nor a key generation touches
clientFrame == <<conf, ncPc, ncErr, initLog, initResp, conn, dials, readers, msgReader, connCtxDone, connClosed, connMutex, normalCloses, wg, readerPc, wire, results, faults, srvReqs, srvLive, notified, sendPc, sendKind, sendKey, sendRes,
                 ctxDone, livePc, lqRecv, liveParams, liveLog, taskPc, taskFrame, taskCh, buffers, closePc, closeRes>>
\* the constructor's variables, and the values no operation of the client touches
ncVars == <<conf, ncPc, ncErr, initLog, initResp, codecVars, ops, keyVars, pool>>
srvVars == <<wire, results, faults, srvReqs, srvLive, notified>>
storeVars == <<reqStore, lqStore, chanState>>
sendVars == <<sendPc, sendKind, sendKey, sendRes>>
liveVars == <<livePc, lqRecv, liveParams, liveLog>>
taskVars == <<taskPc, taskFrame, taskCh, buffers>>
closeVars == <<closePc, closeRes>>

ReqChan(s) == [type |-> "req", id |-> s]
LiveChan(s) == [type |-> "live", id |-> s]
Chans == {ReqChan(s) : s \in Senders} \cup {LiveChan(s) : s \in Senders}

NoFrame == [kind |-> "none", id |-> "", lq |-> 0, res |-> <<>>, n |-> 0, err |-> FALSE]

\* frames on the wire; res is the array of statement results of a response
\* (0: an empty Result, q > 0: the subscription id q), lq the inner id of a
\* notification
ResultFrame(k, r, e) == [kind |-> "result", id |-> k, lq |-> 0, res |-> r, n |-> 0, err |-> e]
NotifyFrame(q, n) == [kind |-> "notify", id |-> "", lq |-> q, res |-> <<>>, n |-> n, err |-> FALSE]
\* an envelope with an empty id and an error; lq is the subscription id its
\* result would decode to
ErrorFrame(q) == [kind |-> "error", id |-> "", lq |-> q, res |-> <<>>, n |-> 0, err |-> TRUE]
GarbageFrame == [kind |-> "garbage", id |-> "", lq |-> 0, res |-> <<>>, n |-> 0, err |-> FALSE]
\* a message that is not binary, and a message whose bytes fail to arrive
TextFrame == [kind |-> "text", id |-> "", lq |-> 0, res |-> <<>>, n |-> 0, err |-> FALSE]
ReadErrorFrame == [kind |-> "readError", id |-> "", lq |-> 0, res |-> <<>>, n |-> 0, err |-> FALSE]

\* what send returns: the output taken from the channel, or an error
NoRes == [kind |-> "none", rid |-> NoKey, res |-> <<>>]
Output(frame) ==
    [kind |-> IF frame.err THEN "ErrResultWithError" ELSE "ok", rid |-> frame.id, res |-> frame.res]
ErrRes(e) == [kind |-> e, rid |-> NoKey, res |-> <<>>]

\* a goroutine that calls the registries: pc is its position in the call, op
\* the call it is in or has last returned from, on registry reg with key, ch
\* the channel it holds, visited the keys its Range has passed, ret the channel
\* the last get or prepare returned
NoCall ==
    [pc |-> "idle", op |-> "none", reg |-> "none", key |-> NoKey, ch |-> NoChan,
     visited |-> {}, calls |-> 0, ret |-> NoChan]

\* the response to a DEFINE query as checkBasicResponse reads it: whether it
\* decodes into []basicResponse[string], and the Status of each element
NoResp == [decodes |-> FALSE, status |-> <<>>]
DefineResponses ==
    {[decodes |-> TRUE, status |-> st] :
        st \in {<<>>, <<"OK">>, <<"ERR">>, <<"OK", "ERR">>, <<"ERR", "OK">>}}
        \cup {[decodes |-> FALSE, status |-> <<"OK">>]}

\* ------------------------------------------------------------------ CBOR values (cbor.go, types.go)

CBORTagNone == 6
cborTagTable == 7
cborTagRecordID == 8
cborTagDatetime == 12
cborTagDuration == 14
expectedArrayLength == 2
nanosecond == 1000000000
recordSeparator == ":"
newRand == "rand()"
newULID == "ulid()"
newUUID == "uuid()"

\* a Go value: k is its type, n and m its numbers, s and c its strings, xs its
\* elements
GoVal(k, n, m, s, c, xs) == [k |-> k, n |-> n, m |-> m, s |-> s, c |-> c, xs |-> xs]
GNil == GoVal("nil", 0, 0, "", "", <<>>)
GString(s) == GoVal("string", 0, 0, s, "", <<>>)
GStringPtr(s) == GoVal("*string", 0, 0, s, "", <<>>)
GInt(k, n) == GoVal(k, n, 0, "", "", <<>>)
GSlice(xs) == GoVal("slice", 0, 0, "", "", xs)
GTag(n, v) == GoVal("cbor.Tag", n, 0, "", "", <<v>>)
\* time.Time as Unix() and Nanosecond()
GTime(secs, nsec) == GoVal("DateTime", secs, nsec, "", "", <<>>)
\* time.Duration, in nanoseconds
GDuration(n) == GoVal("Duration", n, 0, "", "", <<>>)
GZeroAsNone(T, v) == GoVal("ZeroAsNone", 0, 0, "", T, <<v>>)

\* a CBOR data item: t is its major type, n its number, s its text, xs its
\* elements (the content of a tag is its one element)
Item(t, n, s, xs) == [t |-> t, n |-> n, s |-> s, xs |-> xs]
NoItem == Item("none", 0, "", <<>>)
CNull == Item("null", 0, "", <<>>)
CText(s) == Item("text", 0, s, <<>>)
CInt(n) == Item("int", n, "", <<>>)
CArr(xs) == Item("array", 0, "", xs)
CTag(n, x) == Item("tag", n, "", <<x>>)
encodedNull == CNull

NoErr == "nil"
Encoding(err, item) == [st |-> "done", err |-> err, item |-> item]
Decoding(err, val) == [st |-> "done", err |-> err, val |-> val]
NotEncoded == [st |-> "none", err |-> NoErr, item |-> NoItem]
NotDecoded == [st |-> "none", err |-> NoErr, val |-> GNil]

\* cbor.Marshal of a value that has no MarshalCBOR method
RECURSIVE cborMarshal(_)
cborMarshal(v) ==
    CASE v.k = "nil" -> CNull
      [] v.k \in {"string", "*string"} -> CText(v.s)
      [] v.k \in {"int", "int64", "uint64"} -> CInt(v.n)
      [] v.k = "slice" -> CArr([i \in 1..Len(v.xs) |-> cborMarshal(v.xs[i])])

\* cbor.Unmarshal into an empty interface: integers arrive as uint64 or int64,
\* a tag as cbor.Tag
RECURSIVE cborUnmarshalAny(_)
cborUnmarshalAny(item) ==
    CASE item.t = "null" -> GNil
      [] item.t = "text" -> GString(item.s)
      [] item.t = "int" -> GInt(IF item.n >= 0 THEN "uint64" ELSE "int64", item.n)
      [] item.t = "array" -> GSlice([i \in 1..Len(item.xs) |-> cborUnmarshalAny(item.xs[i])])
      [] item.t = "tag" -> GTag(item.n, cborUnmarshalAny(item.xs[1]))

\* the decoder skips the tag numbers in front of an item it decodes into a
\* concrete type
RECURSIVE stripTags(_)
stripTags(item) == IF item.t = "tag" THEN stripTags(item.xs[1]) ELSE item

\* cbor.Unmarshal into a []any
cborUnmarshalSliceAny(item) ==
    LET u == stripTags(item)
    IN  CASE u.t = "null" -> Decoding(NoErr, GNil)
          [] u.t = "array" -> Decoding(NoErr, cborUnmarshalAny(u))
          [] OTHER -> Decoding("UnmarshalTypeError", GNil)

\* cbor.Unmarshal into a []int64
cborUnmarshalSliceInt64(item) ==
    LET u == stripTags(item)
    IN  CASE u.t = "null" -> Decoding(NoErr, GSlice(<<>>))
          [] u.t = "array" /\ \A i \in 1..Len(u.xs) : stripTags(u.xs[i]).t = "int" ->
                Decoding(NoErr, GSlice([i \in 1..Len(u.xs) |-> GInt("int64", stripTags(u.xs[i]).n)]))
          [] OTHER -> Decoding("UnmarshalTypeError", GSlice(<<>>))

\* cbor.Unmarshal into a cbor.RawTag: n is Number and xs[1] is Content; null
\* resets the tag, an item that is no tag is a type error
cborUnmarshalRawTag(item) ==
    CASE item.t = "tag" -> Decoding(NoErr, GoVal("cbor.RawTag", item.n, 0, "", "", <<item.xs[1]>>))
      [] item.t = "null" -> Decoding(NoErr, GoVal("cbor.RawTag", 0, 0, "", "", <<NoItem>>))
      [] OTHER -> Decoding("UnmarshalTypeError", GoVal("cbor.RawTag", 0, 0, "", "", <<NoItem>>))

\* cbor.Unmarshal into a variable of type T that holds old
cborUnmarshalInto(T, item, old) ==
    LET u == stripTags(item)
    IN  CASE item.t = "none" -> Decoding("EOF", old)
          [] T = "string" /\ u.t = "text" -> Decoding(NoErr, GString(u.s))
          [] T = "*string" /\ u.t = "text" -> Decoding(NoErr, GStringPtr(u.s))
          [] T = "*string" /\ u.t = "null" -> Decoding(NoErr, GNil)
          [] T = "int" /\ u.t = "int" -> Decoding(NoErr, GInt("int", u.n))
          [] OTHER -> Decoding("UnmarshalTypeError", old)

\* var zero T
zero(T) ==
    CASE T = "string" -> GString("")
      [] T = "*string" -> GNil
      [] T = "int" -> GInt("int", 0)

\* ------------------------------------------------------------------ record ids, datetime, none (types.go, cbor.go)

MakeID(table, identifier) == GoVal("ID", 0, 0, table, "", <<identifier>>)
newRecordID(table, constructor) == GoVal("newRecordID", 0, 0, table, constructor, <<>>)
NewID(table) == newRecordID(table, newRand)
NewULID(table) == newRecordID(table, newULID)
NewUUID(table) == newRecordID(table, newUUID)

ID_MarshalCBOR(id) ==
    IF id.s = "" THEN Encoding("ErrTableNameRequired", NoItem)
    ELSE IF id.xs[1] = GNil THEN Encoding(NoErr, CTag(cborTagTable, cborMarshal(GString(id.s))))
    ELSE Encoding(NoErr, CTag(cborTagRecordID, cborMarshal(GSlice(<<GString(id.s), id.xs[1]>>))))

\* ID.UnmarshalCBOR without the assignment of the table
ID_UnmarshalCBOR_keepsTable(id, data) ==
    LET r == cborUnmarshalSliceAny(data)
        val == r.val
    IN  IF r.err # NoErr THEN Decoding("failed to unmarshal recordID", id)
        ELSE IF val = GNil THEN Decoding(NoErr, id)
        ELSE IF Len(val.xs) # expectedArrayLength THEN Decoding("ErrDataInvalid", id)
        ELSE IF val.xs[1].k # "string" THEN Decoding("ErrDataInvalid", id)
        ELSE Decoding(NoErr, MakeID(id.s, val.xs[2]))

ID_UnmarshalCBOR(id, data) ==
    LET r == cborUnmarshalSliceAny(data)
        val == r.val
    IN  IF r.err # NoErr THEN Decoding("failed to unmarshal recordID", id)
        ELSE IF val = GNil THEN Decoding(NoErr, id)
        ELSE IF Len(val.xs) # expectedArrayLength THEN Decoding("ErrDataInvalid", id)
        ELSE IF val.xs[1].k # "string" THEN Decoding("ErrDataInvalid", id)
        ELSE Decoding(NoErr, MakeID(val.xs[1].s, val.xs[2]))

newRecordID_MarshalCBOR(id) ==
    Encoding(NoErr, CTag(cborTagRecordID, cborMarshal(GString(id.s \o recordSeparator \o id.c))))

newRecordID_UnmarshalCBOR(id, data) == Decoding("ErrUnmarshalNotSupported", id)

\* time.Unix(secs, nano): nano outside [0, 999999999] is carried into the seconds
time_Unix(secs, nano) == GTime(secs + (nano \div nanosecond), nano % nanosecond)

DateTime_MarshalCBOR(dt) ==
    Encoding(NoErr, CTag(cborTagDatetime, cborMarshal(GSlice(<<GInt("int64", dt.n), GInt("int64", dt.m)>>))))

\* DateTime.UnmarshalCBOR without its length checks
DateTime_UnmarshalCBOR_unchecked(dt, data) ==
    LET r == cborUnmarshalSliceInt64(data)
        val == r.val.xs
    IN  IF r.err # NoErr THEN Decoding("failed to unmarshal datetime", dt)
        ELSE Decoding(NoErr, time_Unix(IF Len(val) > 0 THEN val[1].n ELSE 0,
                                       IF Len(val) > 1 THEN val[2].n ELSE 0))

DateTime_UnmarshalCBOR(dt, data) ==
    LET r == cborUnmarshalSliceInt64(data)
        val == r.val.xs
    IN  IF r.err # NoErr THEN Decoding("failed to unmarshal datetime", dt)
        ELSE IF Len(val) < 1 \/ Len(val) > expectedArrayLength THEN Decoding("ErrDataInvalid", dt)
        ELSE Decoding(NoErr, time_Unix(val[1].n, IF Len(val) > 1 THEN val[2].n ELSE 0))

\* int64(d.Seconds()): the conversion drops the fraction, towards zero
Duration_Seconds(n) == IF n >= 0 THEN n \div nanosecond ELSE -((-n) \div nanosecond)

Duration_MarshalCBOR(d) ==
    LET totalSeconds == Duration_Seconds(d.n)
        totalNanoseconds == d.n
        remainingNanoseconds == totalNanoseconds - (totalSeconds * nanosecond)
    IN  Encoding(NoErr, CTag(cborTagDuration,
                             cborMarshal(GSlice(<<GInt("int64", totalSeconds),
                                                  GInt("int64", remainingNanoseconds)>>))))

\* a Duration.UnmarshalCBOR that reads the seconds alone
Duration_UnmarshalCBOR_wholeSeconds(d, data) ==
    LET r == cborUnmarshalSliceInt64(data)
        val == r.val.xs
    IN  IF r.err # NoErr THEN Decoding("failed to unmarshal duration", d)
        ELSE IF Len(val) > expectedArrayLength THEN Decoding("ErrDataInvalid", d)
        ELSE Decoding(NoErr, GDuration(IF Len(val) > 0 THEN val[1].n * nanosecond ELSE 0))

Duration_UnmarshalCBOR(d, data) ==
    LET r == cborUnmarshalSliceInt64(data)
        val == r.val.xs
    IN  IF r.err # NoErr THEN Decoding("failed to unmarshal duration", d)
        ELSE IF Len(val) > expectedArrayLength THEN Decoding("ErrDataInvalid", d)
        ELSE Decoding(NoErr, GDuration((IF Len(val) > 0 THEN val[1].n * nanosecond ELSE 0)
                                         + (IF Len(val) > 1 THEN val[2].n ELSE 0)))

ZeroAsNone_MarshalCBOR(n) ==
    IF n.xs[1] = zero(n.c) THEN Encoding(NoErr, CTag(CBORTagNone, encodedNull))
    ELSE Encoding(NoErr, cborMarshal(n.xs[1]))

ZeroAsNone_UnmarshalCBOR(n, data) ==
    LET t == cborUnmarshalRawTag(data)
        tag == t.val
        r == cborUnmarshalInto(n.c, tag.xs[1], n.xs[1])
    IN  IF t.err # NoErr THEN Decoding("failed to unmarshal tag", n)
        ELSE IF tag.n = CBORTagNone THEN Decoding(NoErr, n)
        ELSE IF r.err # NoErr THEN Decoding("failed to unmarshal value", GZeroAsNone(n.c, r.val))
        ELSE Decoding(NoErr, GZeroAsNone(n.c, r.val))

\* cbor.Marshal and cbor.Unmarshal call the method of the value's type
MarshalCBOR(v) ==
    CASE v.k = "ID" -> ID_MarshalCBOR(v)
      [] v.k = "newRecordID" -> newRecordID_MarshalCBOR(v)
      [] v.k = "DateTime" -> DateTime_MarshalCBOR(v)
      [] v.k = "Duration" -> Duration_MarshalCBOR(v)
      [] v.k = "ZeroAsNone" -> ZeroAsNone_MarshalCBOR(v)

UnmarshalCBOR(target, data) ==
    CASE target.k = "ID" -> ID_UnmarshalCBOR(target, data)
      [] target.k = "newRecordID" -> newRecordID_UnmarshalCBOR(target, data)
      [] target.k = "DateTime" -> DateTime_UnmarshalCBOR(target, data)
      [] target.k = "Duration" -> Duration_UnmarshalCBOR(target, data)
      [] target.k = "ZeroAsNone" -> ZeroAsNone_UnmarshalCBOR(target, data)

\* the values of the codec scenario
Tables == {"", "person"}
Identifiers ==
    {GNil, GString("a"), GInt("int", 5), GInt("int", -3), GInt("uint64", 5),
     GSlice(<<GString("a"), GInt("int64", 1)>>)}
Times == {GTime(0, 0), GTime(5, 7), GTime(-1, nanosecond - 1)}
\* durations with and without a sub-second part, of both signs
Durations ==
    {GDuration(n) : n \in {0, 1, -1, nanosecond - 1, 1 - nanosecond, nanosecond, -nanosecond,
                           nanosecond + 5, -nanosecond - 5, 2 * nanosecond + 7}}
DurationTargets == {GDuration(0), GDuration(9)}
\* the integers of an array that arrives for a duration
DurationInts == {-1, 1, 2}
RECURSIVE DurationArrays(_)
DurationArrays(n) ==
    IF n = 0 THEN {<<>>} ELSE {Append(xs, CInt(i)) : xs \in DurationArrays(n - 1), i \in DurationInts}
NoneTypes == {"string", "*string", "int"}
nonZero(T) ==
    CASE T = "string" -> GString("x")
      [] T = "*string" -> GStringPtr("")
      [] T = "int" -> GInt("int", 7)
WireInts == {-1, 5, nanosecond + 7}
RECURSIVE IntArrays(_)
IntArrays(n) ==
    IF n = 0 THEN {<<>>} ELSE {Append(xs, CInt(i)) : xs \in IntArrays(n - 1), i \in WireInts}
WireArrays == UNION {IntArrays(n) : n \in 0..MaxElems}


IDs == {MakeID(t, i) : t \in Tables, i \in Identifiers}
NewIDs == {NewID(t) : t \in Tables} \cup {NewULID(t) : t \in Tables} \cup {NewUUID(t) : t \in Tables}
NoneValues(T) == {GZeroAsNone(T, zero(T)), GZeroAsNone(T, nonZero(T))}

\* a target of cbor.Unmarshal is a new variable or one that holds a value
IDTargets == {MakeID("", GNil), MakeID("old", GString("x"))}
TimeTargets == {GTime(0, 0), GTime(9, 9)}

\* the items that arrive for a target of each type
WireItems(k) ==
    CASE k = "ID" ->
            {CNull, CText("person"), CTag(cborTagTable, CText("person")),
             CTag(cborTagRecordID, CText("person:rand()")),
             CTag(cborTagRecordID, CArr(<<CText("person"), CText("a")>>)),
             CArr(<<CText("person")>>), CArr(<<CText("person"), CText("a"), CText("a")>>),
             CArr(<<CInt(5), CText("a")>>)}
      [] k = "DateTime" ->
            {CNull, CText("x")} \cup {CArr(xs) : xs \in WireArrays}
                \cup {CTag(cborTagDatetime, CArr(xs)) : xs \in WireArrays}
      [] k = "Duration" ->
            {CNull, CText("x")}
                \cup UNION {{CArr(xs), CTag(cborTagDuration, CArr(xs))} :
                                xs \in UNION {DurationArrays(n) : n \in 0..MaxElems}}
      [] k = "ZeroAsNone" ->
            {CNull, CTag(CBORTagNone, CNull), CText("x"), CInt(7),
             CTag(cborTagRecordID, CText("x")), CTag(cborTagRecordID, CInt(7))}

NoSubject == [val |-> GNil, target |-> GNil]
Subjects ==
    {[val |-> v, target |-> t] : v \in IDs \cup {GNil}, t \in IDTargets}
        \cup {[val |-> v, target |-> NewID("old")] : v \in NewIDs}
        \cup {[val |-> v, target |-> t] : v \in Times \cup {GNil}, t \in TimeTargets}
        \cup {[val |-> v, target |-> t] : v \in Durations \cup {GNil}, t \in DurationTargets}
        \cup UNION {{[val |-> v, target |-> t] : v \in NoneValues(T) \cup {GNil}, t \in NoneValues(T)} :
                        T \in NoneTypes}

\* ------------------------------------------------------------------ request keys

\* charset, as the bytes of the string: A-Z, a-z, 0-9
charset ==
    [i \in 1..62 |-> IF i <= 26 THEN 64 + i ELSE IF i <= 52 THEN 96 + (i - 26) ELSE 47 + (i - 52)]
charsetLen == Len(charset)

\* binary.LittleEndian.PutUint64(b, w): the eight bytes of w, lowest first; w
\* is held as four 16-bit limbs, the least significant first (the integers of
\* TLC have 32 bits)
PutUint64(w) ==
    [j \in 1..bytesInUint64 |->
        IF j % 2 = 1 THEN w[(j + 1) \div 2] % 256 ELSE w[j \div 2] \div 256]

\* randBytes.read(bytes) for len(bytes) = n: whole words first, then the
\* first bytes of one more word for the rest
randBytes_read(words, n) ==
    [i \in 1..n |-> PutUint64(words[((i - 1) \div bytesInUint64) + 1])[((i - 1) % bytesInUint64) + 1]]

\* a newRequestKey that returns the random bytes as they are
newRequestKey_unmapped(words) == randBytes_read(words, requestKeyLength)

\* newRequestKey: "key[i] = charset[int(b)%charsetLen]" over the bytes read
newRequestKey(words) ==
    LET key == randBytes_read(words, requestKeyLength)
    IN  [i \in 1..requestKeyLength |-> charset[(key[i] % charsetLen) + 1]]

\* limbs whose bytes fall on and around the multiples of charsetLen and the
\* ends of the byte range
Limbs == {0, 1, 61 * 256 + 62, 123 * 256 + 124, 247 * 256 + 248, 255 * 256, 65535}
\* outputs of rng.Uint64()
Words == {[j \in 1..4 |-> l] : l \in Limbs}
            \cup {<<0, 65535, 61 * 256 + 62, 1>>, <<247 * 256 + 248, 255 * 256, 0, 123 * 256 + 124>>,
                  <<65535, 1, 255 * 256, 61 * 256 + 62>>}
wordsPerKey == requestKeyLength \div bytesInUint64

keyIdle == rng = <<>> /\ requestKey = <<>>

\* one call of newRequestKey
newRequestKey_call ==
    /\ rng # <<>>
    /\ requestKey = <<>>
    /\ requestKey' = newRequestKey(rng)
    /\ rng' = <<>>
    /\ UNCHANGED <<clientFrame, storeVars, panicked, ops, codecVars, pool>>

\* ------------------------------------------------------------------ the read path of response.go

\* the buffers sync.Pool can hand out; message m is the m-th the peer sends and
\* task m the one started for it
Bufs == 1..MaxFrames

\* read: messages read so far; free: the buffers in the pool; data: the message
\* whose bytes the array of a buffer holds (0: none); view: the buffer whose
\* array the []byte of a task points into (0: none); msg: the message read for
\* the task; got: the message the task decoded (0: not yet)
poolIdle ==
    pool = [read |-> 0, free |-> {}, data |-> [b \in Bufs |-> 0],
            view |-> [d \in Tasks |-> 0], msg |-> [d \in Tasks |-> 0], got |-> [d \in Tasks |-> 0]]

\* a buffer nobody holds and the pool does not have: what bytes.NewBuffer returns
fresh == {b \in Bufs : /\ b \notin pool.free
                        /\ pool.data[b] = 0
                        /\ \A e \in Bufs : (e < b) => (e \in pool.free \/ pool.data[e] # 0)}

\* c.buffers.Get(): one of the buffers in the pool, or a new one
bufPool_Get == pool.free \cup fresh

\* one turn of the reader of response.go: read takes a buffer, reads the next
\* message into it, returns buff.Bytes() and, by its deferred call, puts the
\* buffer back; the bytes go through resChan to a new task
response_read ==
    /\ pool.read < MaxFrames
    /\ LET m == pool.read + 1 IN
       \E b \in bufPool_Get :
          pool' = [pool EXCEPT !.read = m,
                               !.data[b] = m,
                               !.free = (@ \ {b}) \cup {b},
                               !.view[m] = b,
                               !.msg[m] = m]
    /\ UNCHANGED <<clientFrame, storeVars, panicked, ops, codecVars, keyVars>>

\* handleMessage of response.go: the task decodes the bytes it was handed,
\* which are what the array of the buffer holds at that moment
response_handleMessage(d) ==
    /\ pool.view[d] # 0
    /\ pool' = [pool EXCEPT !.got[d] = pool.data[pool.view[d]], !.view[d] = 0]
    /\ UNCHANGED <<clientFrame, storeVars, panicked, ops, codecVars, keyVars>>

ResponseRead == response_read \/ \E d \in Tasks : response_handleMessage(d)

\* ------------------------------------------------------------------ codec scenario

codecIdle == subject = NoSubject /\ encoded = NotEncoded /\ decoded = NotDecoded

\* cbor.Marshal(subject.val)
cbor_Marshal ==
    /\ subject.val # GNil
    /\ encoded.st = "none"
    /\ encoded' = MarshalCBOR(subject.val)
    /\ UNCHANGED <<subject, decoded, clientVars>>

\* an item arrives from the database
Receive ==
    /\ subject # NoSubject
    /\ subject.val = GNil
    /\ encoded.st = "none"
    /\ \E item \in WireItems(subject.target.k) : encoded' = Encoding(NoErr, item)
    /\ UNCHANGED <<subject, decoded, clientVars>>

\* cbor.Unmarshal(encoded.item, &subject.target)
cbor_Unmarshal ==
    /\ encoded.st = "done"
    /\ encoded.err = NoErr
    /\ decoded.st = "none"
    /\ decoded' = UnmarshalCBOR(subject.target, encoded.item)
    /\ UNCHANGED <<subject, encoded, clientVars>>

\* ------------------------------------------------------------------ Init

\* the Client struct as NewClient builds it, before openWebsocket, and the
\* calls the callers are going to make
InitClient(kinds, params) ==
    /\ conf \in [ns : Namespaces, db : Databases]
    /\ ncPc = "start"
    /\ ncErr = "none"
    /\ initLog = <<>>
    /\ initResp = NoResp
    /\ conn = "nil"
    /\ dials = 0
    /\ readers = 0
    /\ msgReader = "fin"
    /\ connCtxDone = FALSE
    /\ connClosed = FALSE
    /\ connMutex = 0
    /\ normalCloses = 0
    /\ wg = 0
    /\ readerPc = "none"
    /\ wire = <<>>
    /\ results = 0
    /\ faults = 0
    /\ srvReqs = {}
    /\ srvLive = {}
    /\ notified = [s \in Senders |-> 0]
    /\ reqStore = [k \in Keys |-> NoChan]
    /\ lqStore = [s \in Senders |-> NoChan]
    /\ chanState = [c \in Chans |-> "none"]
    /\ sendPc = [s \in Senders |-> "idle"]
    /\ sendKind = kinds
    /\ sendKey = [s \in Senders |-> NoKey]
    /\ sendRes = [s \in Senders |-> NoRes]
    /\ ctxDone = [s \in Senders |-> FALSE]
    /\ livePc = [s \in Senders |-> "none"]
    /\ lqRecv = [s \in Senders |-> <<>>]
    /\ liveParams \in params
    /\ liveLog = [s \in Senders |-> <<>>]
    /\ taskPc = [d \in Tasks |-> "unborn"]
    /\ taskFrame = [d \in Tasks |-> NoFrame]
    /\ taskCh = [d \in Tasks |-> NoChan]
    /\ buffers = [gets |-> 0, puts |-> 0]
    /\ closePc = [c \in Closers |-> "idle"]
    /\ closeRes = [c \in Closers |-> "none"]
    /\ panicked = FALSE
    /\ ops = [g \in Senders |-> NoCall]

InitWith(kinds, params) == InitClient(kinds, params) /\ codecIdle /\ keyIdle /\ poolIdle

\* a client that is never opened, and one value to encode or one target to decode into
InitCodec ==
    /\ InitClient([s \in Senders |-> "off"], {[s \in Senders |-> 0]})
    /\ conf = [ns |-> <<"t","_","n","s">>, db |-> <<"d","b","1">>]
    /\ subject \in Subjects
    /\ encoded = NotEncoded
    /\ decoded = NotDecoded
    /\ keyIdle
    /\ poolIdle

\* ------------------------------------------------------------------ connection supervisor

\* openWebsocket after a successful dial: the old connection (if any) is closed
\* and replaced, the wait group is raised and a reader task is started
openWebsocket ==
    /\ connMutex = 0
    /\ conn' = "open"
    /\ dials' = dials + 1
    /\ readers' = readers + 1
    /\ msgReader' = "fin"

\* checkWebsocketConn(err): TRUE when it goes on to reconnect
checkWebsocketConn(err) ==
    /\ err # "nil"
    /\ CloseStatus(err) \notin {-1, StatusNormalClosure}
    /\ ~connCtxDone

\* a deferred call that receives the close error of the peer
deferredErr_goingAway == "closeGoingAway"

\* "var err error; defer c.checkWebsocketConn(err)": Go evaluates the argument
\* of a deferred call when the defer statement runs, so the call receives the
\* value err has at that point
deferredErr == "nil"

\* ------------------------------------------------------------------ NewClient

NewClient_open ==
    /\ ncPc = "start"
    /\ \E dialed \in BOOLEAN :
         IF dialed
         THEN /\ openWebsocket
              /\ wg' = wg + 1
              /\ readerPc' = "spawned"
              /\ ncPc' = "init"
              /\ ncErr' = ncErr
         ELSE /\ dials' = dials + 1
              /\ ncPc' = "failed"
              /\ ncErr' = "failed to open websocket connection"
              /\ UNCHANGED <<conn, readers, msgReader, wg, readerPc>>
    /\ UNCHANGED <<conf, codecVars, keyVars, pool, ops, initLog, initResp, connCtxDone, connClosed, connMutex, normalCloses>>
    /\ UNCHANGED <<srvVars, storeVars, sendVars, ctxDone, liveVars, taskVars, closeVars, panicked>>

\* init, up to its first RPC: the two name checks
init_names ==
    /\ ncPc = "init"
    /\ IF ~regexName(conf.ns)
       THEN ncPc' = "failed" /\ ncErr' = "ErrInvalidNamespaceName"
       ELSE IF ~regexName(conf.db)
       THEN ncPc' = "failed" /\ ncErr' = "ErrInvalidDatabaseName"
       ELSE ncPc' = "signin" /\ ncErr' = ncErr
    /\ UNCHANGED <<conf, codecVars, keyVars, pool, ops, initLog, initResp, connVars, wg, readerPc>>
    /\ UNCHANGED <<srvVars, storeVars, sendVars, ctxDone, liveVars, taskVars, closeVars, panicked>>

\* the outcomes of the RPC init makes at each position: signIn, use and Query
\* return an error or not
initOutcomes(pc) == {"ok", "error"}

initNext(pc) ==
    CASE pc = "signin" -> "use"
      [] pc = "use" -> "defineNamespace"
      [] pc = "defineNamespace" -> "checkNamespace"
      [] pc = "checkNamespace" -> "defineDatabase"
      [] pc = "defineDatabase" -> "checkDatabase"
      [] pc = "checkDatabase" -> "ready"

\* init, one RPC at a time: signIn, use, DEFINE NAMESPACE, DEFINE DATABASE.
\* The send each of them makes leaves both registries as it found them; a
\* response can only come back while the reader runs.
init_rpc ==
    /\ ncPc \in {"signin", "use", "defineNamespace", "defineDatabase"}
    /\ readerPc = "running"
    /\ initLog' = Append(initLog, ncPc)
    /\ \E out \in initOutcomes(ncPc) :
         IF out = "ok"
         THEN /\ ncPc' = initNext(ncPc)
              /\ ncErr' = ncErr
              /\ IF ncPc \in {"defineNamespace", "defineDatabase"}
                 THEN initResp' \in DefineResponses
                 ELSE initResp' = initResp
         ELSE ncPc' = "failed" /\ ncErr' = out /\ initResp' = initResp
    /\ UNCHANGED <<conf, codecVars, keyVars, pool, ops, connVars, wg, readerPc>>
    /\ UNCHANGED <<srvVars, storeVars, sendVars, ctxDone, liveVars, taskVars, closeVars, panicked>>

\* a check that takes any status
checkBasicResponse_anyStatus(resp) ==
    IF ~resp.decodes THEN "could not unmarshal response"
    ELSE IF Len(resp.status) < 1 THEN "ErrEmptyResponse"
    ELSE "nil"

checkBasicResponse(resp) ==
    IF ~resp.decodes THEN "could not unmarshal response"
    ELSE IF Len(resp.status) < 1 THEN "ErrEmptyResponse"
    ELSE IF resp.status[1] # "OK" THEN "ErrResponseNotOkay"
    ELSE "nil"

\* init checks the response to the DEFINE query it has made; when init returns
\* its resp is gone
init_check ==
    /\ ncPc \in {"checkNamespace", "checkDatabase"}
    /\ IF checkBasicResponse(initResp) = "nil"
       THEN ncPc' = initNext(ncPc) /\ ncErr' = ncErr
       ELSE ncPc' = "failed" /\ ncErr' = checkBasicResponse(initResp)
    /\ initResp' = IF ncPc' \in {"ready", "failed"} THEN NoResp ELSE initResp
    /\ UNCHANGED <<conf, codecVars, keyVars, pool, ops, initLog, connVars, wg, readerPc>>
    /\ UNCHANGED <<srvVars, storeVars, sendVars, ctxDone, liveVars, taskVars, closeVars, panicked>>

\* ------------------------------------------------------------------ reader

\* subscribe starts running: its own waitGroup.Add(1)
subscribe_start ==
    /\ ~panicked
    /\ readerPc = "spawned"
    /\ readerPc' = "running"
    /\ wg' = wg + 1
    /\ UNCHANGED <<ncVars, connVars, srvVars, storeVars, sendVars, ctxDone, liveVars,
                   taskVars, closeVars, panicked>>

\* the error read returns: the context check first, then conn.Reader, which
\* yields the frames written before the peer closed and then the close error,
\* and fails at once on a connection that is closed; "block" when there is
\* nothing to read yet. websocket.Conn has one message reader at a time, to be
\* read to EOF: a Reader call that finds the previous one unread fails
\* ("previous message not read to completion") and closes the connection
read ==
    IF connCtxDone THEN "ctx"
    ELSE IF conn = "closed" THEN "netClosed"
    ELSE IF msgReader = "unread" THEN "notReadToCompletion"
    ELSE IF wire # <<>>
    THEN CASE Head(wire).kind = "text" -> "notBinary"
           [] Head(wire).kind = "readError" -> "failed to read message"
           [] OTHER -> "nil"
    ELSE IF conn = "dropped" THEN "closeGoingAway"
    ELSE "block"

\* the errors on which the loop of subscribe returns
readerStops(err) ==
    \/ err = "ctx"
    \/ err \in {"eof", "netClosed"}
    \/ CloseStatus(err) # -1

\* c.buffers.get() and c.buffers.put(buf)
bufPool_get == buffers' = [buffers EXCEPT !.gets = @ + 1]
bufPool_put == buffers' = [buffers EXCEPT !.puts = @ + 1]

\* the dispatch task the next "go c.handleMessage(buf)" starts
nextTask == CHOOSE d \in Tasks : taskPc[d] = "unborn" /\ \A e \in Tasks : e < d => taskPc[e] # "unborn"

\* one iteration of the loop of subscribe: read, then return, continue or
\* start a dispatch task for the frame
subscribe_loop ==
    /\ ~panicked
    /\ readerPc = "running"
    /\ LET err == read IN
       /\ err # "block"
       /\ IF checkWebsocketConn(deferredErr)
          THEN \* reconnect from inside read: a new reader replaces this one
               /\ openWebsocket
               /\ readerPc' = "spawned"
               /\ wg' = wg + 1 - 2
               /\ UNCHANGED <<wire, taskVars>>
          ELSE /\ UNCHANGED <<dials, readers>>
               /\ IF readerStops(err)
                  THEN /\ readerPc' = "exited"
                       /\ wg' = wg - 2
                       /\ UNCHANGED <<conn, msgReader, wire, taskVars>>
                  ELSE IF err = "notReadToCompletion"
                  THEN \* conn.Reader has failed and closed the connection; "continue"
                       /\ conn' = "closed"
                       /\ UNCHANGED <<msgReader, wire, readerPc, wg, taskVars>>
                  ELSE IF err = "notBinary"
                  THEN \* read returns without reading the message; "continue"
                       /\ msgReader' = "unread"
                       /\ wire' = Tail(wire)
                       /\ UNCHANGED <<conn, readerPc, wg, taskVars>>
                  ELSE IF err # "nil"
                  THEN \* buf.ReadFrom has failed: read returns the error alone
                       /\ wire' = Tail(wire)
                       /\ bufPool_get
                       /\ UNCHANGED <<conn, msgReader, readerPc, wg, taskPc, taskFrame, taskCh>>
                  ELSE /\ wire' = Tail(wire)
                       /\ bufPool_get
                       /\ UNCHANGED <<conn, msgReader>>
                       /\ taskPc' = [taskPc EXCEPT ![nextTask] = "spawned"]
                       /\ taskFrame' = [taskFrame EXCEPT ![nextTask] = Head(wire)]
                       /\ UNCHANGED <<readerPc, wg, taskCh>>
    /\ UNCHANGED <<ncVars, connCtxDone, connClosed, connMutex, normalCloses>>
    /\ UNCHANGED <<results, faults, srvReqs, srvLive, notified, storeVars, sendVars, ctxDone,
                   liveVars, closeVars, panicked>>

\* ------------------------------------------------------------------ registries

\* a lookup that takes an entry whatever its key
requests_get_anyEntry(key) ==
    IF \A k \in Keys : reqStore[k] = NoChan THEN NoChan
    ELSE reqStore[CHOOSE k \in Keys : reqStore[k] # NoChan]

\* requests.get(key)
requests_get(key) == reqStore[key]

\* liveQueries.get(key, create = false)
\* liveQueries.get(key, create): the channel under key; without one, a new
\* channel when create is set, NoChan ("not ok") otherwise
liveQueries_get(key, create) ==
    IF lqStore[key] # NoChan THEN lqStore[key]
    ELSE IF create THEN LiveChan(key)
    ELSE NoChan

\* the registry after liveQueries.get(key, create): a channel it made is stored
liveQueries_get_stores(key, create) ==
    IF lqStore[key] = NoChan /\ create
    THEN /\ lqStore' = [lqStore EXCEPT ![key] = LiveChan(key)]
         /\ chanState' = [chanState EXCEPT ![LiveChan(key)] = "open"]
    ELSE UNCHANGED <<lqStore, chanState>>

\* a dispatcher whose lookup creates the entry it misses
handleLiveQuery_creates == TRUE

\* the create argument of "c.liveQueries.get(string(rawID.ID), false)"
handleLiveQuery_create == FALSE

\* a handleMessage that lets every decoded envelope through
dropsError_never(frame) == FALSE

\* "if res.ID == "" && res.Error != nil": logged as "Received error message." and dropped
dropsError(frame) == frame.id = "" /\ frame.err

\* the frame is one handleMessage hands to handleLiveQuery with an id it can decode
isNotification(frame) == frame.kind # "garbage" /\ frame.id = "" /\ ~dropsError(frame)

\* ------------------------------------------------------------------ dispatch tasks

\* the channel handleMessage finds for a decoded frame: handleResult looks the
\* id up in the pending registry, handleLiveQuery the inner id in the
\* subscription registry; NoChan when the frame is dropped
route(frame) ==
    IF frame.kind = "garbage" THEN NoChan
    ELSE IF dropsError(frame) THEN NoChan
    ELSE IF frame.id = "" THEN liveQueries_get(frame.lq, handleLiveQuery_create)
    ELSE requests_get(frame.id)

\* a dispatch task that has ended: its Done, and its locals are gone
taskEnds(d) ==
    /\ taskPc' = [taskPc EXCEPT ![d] = "done"]
    /\ taskFrame' = [taskFrame EXCEPT ![d] = NoFrame]
    /\ taskCh' = [taskCh EXCEPT ![d] = NoChan]

\* handleMessage from the moment the task runs up to the select of
\* handleResult / handleLiveQuery: waitGroup.Add(1), the decode, the buffer
\* put back (after a failed decode too), the lookup
handleMessage(d) ==
    /\ ~panicked
    /\ taskPc[d] = "spawned"
    /\ LET ch == route(taskFrame[d]) IN
       IF ch = NoChan
       THEN /\ taskEnds(d)
            /\ wg' = wg + 1 - 1
       ELSE /\ taskPc' = [taskPc EXCEPT ![d] = "sending"]
            /\ taskCh' = [taskCh EXCEPT ![d] = ch]
            /\ wg' = wg + 1
            /\ UNCHANGED taskFrame
    /\ bufPool_put
    /\ IF isNotification(taskFrame[d])
       THEN liveQueries_get_stores(taskFrame[d].lq, handleLiveQuery_create)
       ELSE UNCHANGED <<lqStore, chanState>>
    /\ UNCHANGED <<ncVars, connVars, readerPc, srvVars, reqStore, sendVars, ctxDone,
                   liveVars, closeVars, panicked>>

\* the select of handleResult / handleLiveQuery takes the connection context
\* (done) or the timer of c.timeout, which may fire at any time: the value is dropped
dispatch_drop(d) ==
    /\ ~panicked
    /\ taskPc[d] = "sending"
    /\ taskEnds(d)
    /\ wg' = wg - 1
    /\ UNCHANGED <<buffers, ncVars, connVars, readerPc, srvVars, storeVars, sendVars, ctxDone,
                   liveVars, closeVars, panicked>>

\* the select picks the send and the channel has been closed: the task panics
dispatch_panic(d) ==
    /\ ~panicked
    /\ taskPc[d] = "sending"
    /\ chanState[taskCh[d]] = "closed"
    /\ panicked' = TRUE
    /\ UNCHANGED <<ncVars, connVars, wg, readerPc, srvVars, storeVars, sendVars, ctxDone,
                   liveVars, taskVars, closeVars>>

\* ------------------------------------------------------------------ send

\* requests.prepare with the key newRequestKey returned
prepare(s, key) ==
    /\ reqStore' = [reqStore EXCEPT ![key] = ReqChan(s)]
    /\ chanState' = [chanState EXCEPT ![ReqChan(s)] = "open"]

\* a cleanup that closes the channel and leaves the entry in the map
cleanup_keepsEntry(key) ==
    IF reqStore[key] = NoChan
    THEN UNCHANGED <<reqStore, chanState, panicked>>
    ELSE /\ UNCHANGED reqStore
         /\ IF chanState[reqStore[key]] = "closed"
            THEN panicked' = TRUE /\ UNCHANGED chanState
            ELSE /\ chanState' = [chanState EXCEPT ![reqStore[key]] = "closed"]
                 /\ UNCHANGED panicked

\* requests.cleanup(key) / requests.del(key): close the channel stored under
\* the key and delete the entry; nothing when there is none
cleanup(key) ==
    IF reqStore[key] = NoChan
    THEN UNCHANGED <<reqStore, chanState, panicked>>
    ELSE /\ reqStore' = [reqStore EXCEPT ![key] = NoChan]
         /\ IF chanState[reqStore[key]] = "closed"
            THEN panicked' = TRUE /\ UNCHANGED chanState
            ELSE /\ chanState' = [chanState EXCEPT ![reqStore[key]] = "closed"]
                 /\ UNCHANGED panicked

\* the error conn.Write returns for the caller context and the connection
write(s) ==
    IF ctxDone[s] THEN "ctx"
    ELSE IF conn = "closed" THEN "netClosed"
    ELSE IF conn = "dropped" THEN "closeGoingAway"
    ELSE "nil"

\* send, up to its select: prepare (the deferred cleanup is registered), then
\* c.write(ctx, req); on an error of the write send returns it
send_write(s) ==
    /\ ~panicked
    /\ ncPc = "ready"
    /\ sendKind[s] # "off"
    /\ sendPc[s] = "idle"
    /\ \E key \in keysFor(s) :
         /\ prepare(s, key)
         /\ sendKey' = [sendKey EXCEPT ![s] = key]
         /\ IF write(s) = "nil"
            THEN /\ srvReqs' = srvReqs \cup {[key |-> key, from |-> s, live |-> sendKind[s] = "live"]}
                 /\ sendPc' = [sendPc EXCEPT ![s] = "waiting"]
                 /\ UNCHANGED sendRes
            ELSE /\ sendRes' = [sendRes EXCEPT ![s] = ErrRes("failed to write to websocket")]
                 /\ sendPc' = [sendPc EXCEPT ![s] = "cleanup"]
                 /\ UNCHANGED srvReqs
    /\ IF checkWebsocketConn(deferredErr)
       THEN \* reconnect from inside write: the reader of the old connection ends
            /\ openWebsocket
            /\ readerPc' = "spawned"
            /\ wg' = IF readerPc = "running" THEN wg + 1 - 2 ELSE wg + 1
       ELSE UNCHANGED <<conn, dials, readers, msgReader, readerPc, wg>>
    /\ UNCHANGED <<ncVars, connCtxDone, connClosed, connMutex, normalCloses>>
    /\ UNCHANGED <<wire, results, faults, srvLive, notified, lqStore, sendKind, ctxDone,
                   liveVars, taskVars, closeVars, panicked>>

\* the cases of the select of send that need no sender: the contexts send
\* waits on are done, or its channel is closed
sendWakes(s) ==
    (IF ctxDone[s] THEN {"context done"} ELSE {})
    \cup (IF chanState[ReqChan(s)] = "closed" THEN {"ErrChannelClosed"} ELSE {})

\* send: the select returns without a value
send_wait(s) ==
    /\ ~panicked
    /\ sendPc[s] = "waiting"
    /\ \E e \in sendWakes(s) : sendRes' = [sendRes EXCEPT ![s] = ErrRes(e)]
    /\ sendPc' = [sendPc EXCEPT ![s] = "cleanup"]
    /\ UNCHANGED <<ncVars, connVars, wg, readerPc, srvVars, storeVars, sendKind, sendKey,
                   ctxDone, liveVars, taskVars, closeVars, panicked>>

\* the receiver handleResult's send meets: the send that waits on the channel
receiverOf(ch) == {s \in Senders : ch = ReqChan(s) /\ sendPc[s] = "waiting"}

\* handleResult hands the output to the send that waits on the channel
handleResult_deliver(d) ==
    /\ ~panicked
    /\ taskPc[d] = "sending"
    /\ taskCh[d].type = "req"
    /\ chanState[taskCh[d]] = "open"
    /\ \E s \in receiverOf(taskCh[d]) :
         /\ sendRes' = [sendRes EXCEPT ![s] = Output(taskFrame[d])]
         /\ sendPc' = [sendPc EXCEPT ![s] = "cleanup"]
    /\ taskEnds(d)
    /\ wg' = wg - 1
    /\ UNCHANGED <<buffers, ncVars, connVars, readerPc, srvVars, storeVars, sendKind, sendKey,
                   ctxDone, liveVars, closeVars, panicked>>

\* send returns: the deferred requests.cleanup(reqID)
send_cleanup(s) ==
    /\ ~panicked
    /\ sendPc[s] = "cleanup"
    /\ cleanup(sendKey[s])
    /\ sendPc' = [sendPc EXCEPT ![s] = "done"]
    /\ UNCHANGED <<ncVars, connVars, wg, readerPc, srvVars, lqStore, sendKind, sendKey,
                   sendRes, ctxDone, liveVars, taskVars, closeVars>>

\* ------------------------------------------------------------------ Live

\* liveQueries.del(key)
liveQueries_del(key) ==
    IF lqStore[key] = NoChan
    THEN UNCHANGED <<lqStore, chanState>>
    ELSE /\ lqStore' = [lqStore EXCEPT ![key] = NoChan]
         /\ chanState' = [chanState EXCEPT ![lqStore[key]] = "closed"]

\* the Result of the i-th DEFINE PARAM statement: not empty, not a subscription id
resultOfDefine(i) == 0 - i

\* Live reads the subscription id: "queryIndex := len(params)", then
\* "len(res) < 1 || string(res[queryIndex].Result) == """; an index past the
\* end of res is a run-time panic
liveKeyOutcome(res, queryIndex) ==
    IF Len(res) < 1 THEN "ErrEmptyResponse"
    ELSE IF queryIndex + 1 > Len(res) THEN "index out of range"
    ELSE IF res[queryIndex + 1] = 0 THEN "ErrEmptyResponse"
    ELSE "ok"

\* liveKey := res[queryIndex].Result
liveKey(s) == sendRes[s].res[liveParams[s] + 1]

\* Live after its send returned a response: the subscription id is read from
\* it, liveQueries.get(id, true) returns or creates the channel, and the
\* cleanup task is started (counted in the wait group before it starts)
Live_register(s) ==
    /\ ~panicked
    /\ sendKind[s] = "live"
    /\ sendPc[s] = "done"
    /\ livePc[s] = "none"
    /\ IF sendRes[s].kind # "ok"
       THEN /\ livePc' = [livePc EXCEPT ![s] = "failed to send request"]
            /\ UNCHANGED <<lqStore, chanState, wg, panicked>>
       ELSE IF liveKeyOutcome(sendRes[s].res, liveParams[s]) # "ok"
       THEN /\ livePc' = [livePc EXCEPT ![s] = liveKeyOutcome(sendRes[s].res, liveParams[s])]
            /\ panicked' = (livePc'[s] = "index out of range")
            /\ UNCHANGED <<lqStore, chanState, wg>>
       ELSE /\ livePc' = [livePc EXCEPT ![s] = "watching"]
            /\ wg' = wg + 1
            /\ IF lqStore[liveKey(s)] = NoChan
               THEN /\ lqStore' = [lqStore EXCEPT ![liveKey(s)] = LiveChan(s)]
                    /\ chanState' = [chanState EXCEPT ![LiveChan(s)] = "open"]
               ELSE UNCHANGED <<lqStore, chanState>>
            /\ UNCHANGED panicked
    /\ UNCHANGED <<ncVars, connVars, readerPc, srvVars, reqStore, sendVars, ctxDone,
                   lqRecv, liveParams, liveLog, taskVars, closeVars>>

\* the cleanup task of Live: its select, then liveQueries.del(key) when it was
\* the caller context that ended
Live_watch(s) ==
    /\ ~panicked
    /\ livePc[s] = "watching"
    /\ \/ /\ connCtxDone
          /\ livePc' = [livePc EXCEPT ![s] = "done"]
          /\ wg' = wg - 1
          /\ UNCHANGED <<lqStore, chanState, liveLog>>
       \/ /\ ctxDone[s]
          /\ liveQueries_del(liveKey(s))
          /\ liveLog' = [liveLog EXCEPT ![s] = Append(@, "del")]
          /\ livePc' = [livePc EXCEPT ![s] = "killing"]
          /\ UNCHANGED wg
    /\ UNCHANGED <<ncVars, connVars, readerPc, srvVars, reqStore, sendVars, ctxDone,
                   lqRecv, liveParams, taskVars, closeVars, panicked>>

\* a cleanup task that goes on to the parameters without the kill
Live_kill_skipped(s) ==
    /\ ~panicked
    /\ livePc[s] = "killing"
    /\ IF liveParams[s] = 0
       THEN /\ livePc' = [livePc EXCEPT ![s] = "done"]
            /\ wg' = wg - 1
       ELSE /\ livePc' = [livePc EXCEPT ![s] = "removing"]
            /\ UNCHANGED wg
    /\ UNCHANGED <<ncVars, connVars, readerPc, srvVars, storeVars, sendVars, ctxDone,
                   lqRecv, liveParams, liveLog, taskVars, closeVars, panicked>>

\* the cleanup task of Live: c.Kill(killCtx, key) is called and has returned
\* (its error is only logged); without parameters the task ends
Live_kill(s) ==
    /\ ~panicked
    /\ livePc[s] = "killing"
    /\ liveLog' = [liveLog EXCEPT ![s] = Append(@, "kill")]
    /\ IF liveParams[s] = 0
       THEN /\ livePc' = [livePc EXCEPT ![s] = "done"]
            /\ wg' = wg - 1
       ELSE /\ livePc' = [livePc EXCEPT ![s] = "removing"]
            /\ UNCHANGED wg
    /\ UNCHANGED <<ncVars, connVars, readerPc, srvVars, storeVars, sendVars, ctxDone,
                   lqRecv, liveParams, taskVars, closeVars, panicked>>

\* the REMOVE PARAM queries the cleanup task has issued
removed(s) == Len(SelectSeq(liveLog[s], LAMBDA e : e = "removeParam"))

\* the cleanup task of Live: one turn of "for newKey := range params", a
\* REMOVE PARAM query (its error is only logged); after the last one the task ends
Live_remove(s) ==
    /\ ~panicked
    /\ livePc[s] = "removing"
    /\ liveLog' = [liveLog EXCEPT ![s] = Append(@, "removeParam")]
    /\ IF removed(s) + 1 = liveParams[s]
       THEN /\ livePc' = [livePc EXCEPT ![s] = "done"]
            /\ wg' = wg - 1
       ELSE UNCHANGED <<livePc, wg>>
    /\ UNCHANGED <<ncVars, connVars, readerPc, srvVars, storeVars, sendVars, ctxDone,
                   lqRecv, liveParams, taskVars, closeVars, panicked>>

\* handleLiveQuery hands the notification to the consumer of the channel
handleLiveQuery_deliver(d) ==
    /\ ~panicked
    /\ taskPc[d] = "sending"
    /\ taskCh[d].type = "live"
    /\ chanState[taskCh[d]] = "open"
    /\ livePc[taskCh[d].id] # "none"      \* a caller of Live holds the channel and receives
    /\ lqRecv' = [lqRecv EXCEPT ![taskCh[d].id] = Append(@, taskFrame[d].n)]
    /\ taskEnds(d)
    /\ wg' = wg - 1
    /\ UNCHANGED <<buffers, ncVars, connVars, readerPc, srvVars, storeVars, sendVars, ctxDone,
                   livePc, liveParams, liveLog, closeVars, panicked>>

\* ------------------------------------------------------------------ Close

\* requests.len()
requests_len(store) == Cardinality({k \in DOMAIN store : store[k] # NoChan})

\* a reset that replaces the maps and closes no channel
reset_closesNothing ==
    /\ reqStore' = [k \in Keys |-> NoChan]
    /\ lqStore' = [q \in Senders |-> NoChan]
    /\ UNCHANGED chanState

\* requests.reset() and liveQueries.reset(): every channel in a registry is
\* closed and the registry emptied
reset ==
    /\ chanState' = [c \in Chans |->
                       IF (\E k \in Keys : reqStore[k] = c) \/ (\E q \in Senders : lqStore[q] = c)
                       THEN "closed" ELSE chanState[c]]
    /\ reqStore' = [k \in Keys |-> NoChan]
    /\ lqStore' = [q \in Senders |-> NoChan]

\* the errors conn.Close(StatusNormalClosure) may return: none, one Close
\* tolerates (net.ErrClosed, io.EOF), or another one
closeErrors == {"nil", "netClosed", "failed"}

\* a Close that never takes the early return
alreadyClosed_never == FALSE

\* "if c.connClosed { return nil }"
alreadyClosed == connClosed

\* Close, up to the wait: the mutex, the connClosed check, conn.Close and connCancel
Close_enter(c) ==
    /\ ~panicked
    /\ ncPc = "ready"
    /\ closePc[c] = "idle"
    /\ connMutex = 0
    /\ IF alreadyClosed
       THEN /\ closeRes' = [closeRes EXCEPT ![c] = "nil"]
            /\ closePc' = [closePc EXCEPT ![c] = "done"]
            /\ UNCHANGED <<conn, connCtxDone, connClosed, connMutex, normalCloses>>
       ELSE /\ connClosed' = TRUE
            /\ conn' = "closed"
            /\ normalCloses' = normalCloses + 1
            /\ \E err \in closeErrors :
                 IF err = "failed"
                 THEN /\ closeRes' = [closeRes EXCEPT ![c] = "could not close websocket connection"]
                      /\ closePc' = [closePc EXCEPT ![c] = "done"]
                      /\ UNCHANGED <<connCtxDone, connMutex>>
                 ELSE /\ connCtxDone' = TRUE
                      /\ connMutex' = c
                      /\ closePc' = [closePc EXCEPT ![c] = "waiting"]
                      /\ UNCHANGED closeRes
    /\ UNCHANGED <<ncVars, dials, readers, msgReader, wg, readerPc, srvVars, storeVars, sendVars,
                   ctxDone, liveVars, taskVars, panicked>>

\* the helper task of Close: waitGroup.Wait() returns and waitChan is closed
Close_wait(c) ==
    /\ ~panicked
    /\ closePc[c] = "waiting"
    /\ wg = 0
    /\ closePc' = [closePc EXCEPT ![c] = "waited"]
    /\ UNCHANGED <<ncVars, connVars, wg, readerPc, srvVars, storeVars, sendVars,
                   ctxDone, liveVars, taskVars, closeRes, panicked>>

\* what the select of Close can return: nil once waitChan is closed, the
\* timeout once the ten seconds have passed
closeReturns(c) ==
    (IF closePc[c] = "waited" THEN {"nil"} ELSE {}) \cup {"ErrTimeoutWaitingForGoroutines"}

\* Close returns from its select: the deferred resets run and the mutex is released
Close_return(c) ==
    /\ ~panicked
    /\ closePc[c] \in {"waiting", "waited"}
    /\ \E r \in closeReturns(c) : closeRes' = [closeRes EXCEPT ![c] = r]
    /\ closePc' = [closePc EXCEPT ![c] = "done"]
    /\ reset
    /\ connMutex' = 0
    /\ UNCHANGED <<ncVars, conn, dials, readers, msgReader, connCtxDone, connClosed, normalCloses, wg,
                   readerPc, srvVars, sendVars, ctxDone, liveVars, taskVars, panicked>>

\* ------------------------------------------------------------------ registry calls (sync.Map revision)

\* the goroutine has begun its next call
called(g, op, reg, key) ==
    [pc |-> "idle", op |-> op, reg |-> reg, key |-> key, ch |-> NoChan,
     visited |-> {}, calls |-> ops[g].calls + 1, ret |-> NoChan]

storeOf(reg) == IF reg = "requests" THEN reqStore ELSE lqStore
keysOf(reg) == IF reg = "requests" THEN Keys ELSE Senders

\* store.Store(key, ch); store.Delete(key) leaves no entry
store_Store(reg, key, ch) ==
    IF reg = "requests"
    THEN reqStore' = [reqStore EXCEPT ![key] = ch] /\ UNCHANGED lqStore
    ELSE lqStore' = [lqStore EXCEPT ![key] = ch] /\ UNCHANGED reqStore

\* close(ch): the close of a closed channel panics
closeChan(ch) ==
    IF chanState[ch] = "closed"
    THEN panicked' = TRUE /\ UNCHANGED chanState
    ELSE chanState' = [chanState EXCEPT ![ch] = "closed"] /\ UNCHANGED panicked

\* what a registry call leaves alone
callFrame ==
    UNCHANGED <<conf, ncPc, ncErr, initLog, initResp, connVars, wg, readerPc, srvVars, sendVars,
                ctxDone, liveVars, taskVars, closeVars, codecVars, keyVars, pool>>

canCall(g) == ~panicked /\ ops[g].pc = "idle" /\ ops[g].calls < MaxCalls

\* liveQueries.get(key, create), up to its return or to the Store: the Load,
\* and make(chan []byte) when there is no entry and create is set
liveQueries_get_Load(g, key, create) ==
    /\ canCall(g)
    /\ LET op == IF create THEN "get" ELSE "lookup" IN
       IF lqStore[key] # NoChan \/ ~create
       THEN /\ ops' = [ops EXCEPT ![g] = [called(g, op, "liveQueries", key) EXCEPT !.ret = lqStore[key]]]
            /\ UNCHANGED chanState
       ELSE /\ chanState[LiveChan(g)] = "none"
            /\ chanState' = [chanState EXCEPT ![LiveChan(g)] = "open"]
            /\ ops' = [ops EXCEPT ![g] = [called(g, op, "liveQueries", key) EXCEPT
                                             !.pc = "get_Store", !.ch = LiveChan(g)]]
    /\ UNCHANGED <<reqStore, lqStore, panicked>>
    /\ callFrame

\* liveQueries.get(key, true): l.store.Store(key, ch); return ch, true
liveQueries_get_Store(g) ==
    /\ ~panicked
    /\ ops[g].pc = "get_Store"
    /\ store_Store("liveQueries", ops[g].key, ops[g].ch)
    /\ ops' = [ops EXCEPT ![g].pc = "idle", ![g].ret = ops[g].ch, ![g].ch = NoChan]
    /\ UNCHANGED <<chanState, panicked>>
    /\ callFrame

\* requests.prepare()
requests_prepare(g, key) ==
    /\ canCall(g)
    /\ chanState[ReqChan(g)] = "none"
    /\ chanState' = [chanState EXCEPT ![ReqChan(g)] = "open"]
    /\ store_Store("requests", key, ReqChan(g))
    /\ ops' = [ops EXCEPT ![g] = [called(g, "prepare", "requests", key) EXCEPT !.ret = ReqChan(g)]]
    /\ UNCHANGED panicked
    /\ callFrame

\* requests.cleanup(key) and liveQueries.del(key): store.LoadAndDelete(key)
LoadAndDelete(g, reg, key) ==
    /\ canCall(g)
    /\ IF storeOf(reg)[key] = NoChan
       THEN /\ ops' = [ops EXCEPT ![g] = called(g, "del", reg, key)]
            /\ UNCHANGED <<reqStore, lqStore>>
       ELSE /\ ops' = [ops EXCEPT ![g] = [called(g, "del", reg, key) EXCEPT
                                             !.pc = "del_close", !.ch = storeOf(reg)[key]]]
            /\ store_Store(reg, key, NoChan)
    /\ UNCHANGED <<chanState, panicked>>
    /\ callFrame

\* requests.cleanup(key) and liveQueries.del(key): close(ch) of the channel
\* LoadAndDelete returned
del_close(g) ==
    /\ ~panicked
    /\ ops[g].pc = "del_close"
    /\ closeChan(ops[g].ch)
    /\ ops' = [ops EXCEPT ![g].pc = "idle", ![g].ch = NoChan]
    /\ UNCHANGED <<reqStore, lqStore>>
    /\ callFrame

\* requests.reset() and liveQueries.reset() begin: store.Range(...)
reset_begin(g, reg) ==
    /\ canCall(g)
    /\ ops' = [ops EXCEPT ![g] = [called(g, "reset", reg, NoKey) EXCEPT !.pc = "reset_Range"]]
    /\ UNCHANGED <<reqStore, lqStore, chanState, panicked>>
    /\ callFrame

\* Range passes the next entry to the function, or returns when it has passed all
reset_Range(g) ==
    /\ ~panicked
    /\ ops[g].pc = "reset_Range"
    /\ LET reg == ops[g].reg
           left == {k \in keysOf(reg) \ ops[g].visited : storeOf(reg)[k] # NoChan}
       IN  IF left = {}
           THEN ops' = [ops EXCEPT ![g].pc = "idle", ![g].visited = {}]
           ELSE \E k \in left :
                  ops' = [ops EXCEPT ![g].pc = "reset_close", ![g].key = k,
                                     ![g].ch = storeOf(reg)[k], ![g].visited = @ \cup {k}]
    /\ UNCHANGED <<reqStore, lqStore, chanState, panicked>>
    /\ callFrame

\* the function of reset: close(ch)
reset_close(g) ==
    /\ ~panicked
    /\ ops[g].pc = "reset_close"
    /\ closeChan(ops[g].ch)
    /\ ops' = [ops EXCEPT ![g].pc = "reset_Delete", ![g].ch = NoChan]
    /\ UNCHANGED <<reqStore, lqStore>>
    /\ callFrame

\* the function of reset: store.Delete(key)
reset_Delete(g) ==
    /\ ~panicked
    /\ ops[g].pc = "reset_Delete"
    /\ store_Store(ops[g].reg, ops[g].key, NoChan)
    /\ ops' = [ops EXCEPT ![g].pc = "reset_Range"]
    /\ UNCHANGED <<chanState, panicked>>
    /\ callFrame

\* ------------------------------------------------------------------ environment

\* the array a server returns for a request: for a live query the results of
\* the DEFINE PARAM statements and then the subscription id
serverResults(r, e) ==
    IF r.live /\ ~e
    THEN [i \in 1..(liveParams[r.from] + 1) |->
             IF i = liveParams[r.from] + 1 THEN r.from ELSE resultOfDefine(i)]
    ELSE <<>>

\* the server answers a request it has received, with a result or an error
ServerRespond ==
    /\ conn = "open"
    /\ results < MaxResults
    /\ \E r \in srvReqs, e \in BOOLEAN :
         /\ wire' = Append(wire, ResultFrame(r.key, serverResults(r, e), e))
         /\ srvLive' = IF r.live /\ ~e THEN srvLive \cup {r.from} ELSE srvLive
    /\ results' = results + 1
    /\ UNCHANGED <<ncVars, connVars, wg, readerPc, faults, srvReqs, notified, storeVars, sendVars,
                   ctxDone, liveVars, taskVars, closeVars, panicked>>

\* the server emits the next notification of a live query
ServerNotify ==
    /\ conn = "open"
    /\ \E q \in srvLive :
         /\ notified[q] < MaxNotifs
         /\ wire' = Append(wire, NotifyFrame(q, notified[q] + 1))
         /\ notified' = [notified EXCEPT ![q] = @ + 1]
    /\ UNCHANGED <<ncVars, connVars, wg, readerPc, results, faults, srvReqs, srvLive, storeVars,
                   sendVars, ctxDone, liveVars, taskVars, closeVars, panicked>>

\* the arrays shorter than a live query with n parameters asks for, and the
\* one of full length whose subscription id is empty
shortResults(n) ==
    {[i \in 1..m |-> resultOfDefine(i)] : m \in 0..n}
        \cup {[i \in 1..(n + 1) |-> IF i = n + 1 THEN 0 ELSE resultOfDefine(i)]}

\* the server answers a live query with an array that holds no subscription id
ServerRespondShort ==
    /\ conn = "open"
    /\ results < MaxResults
    /\ \E r \in srvReqs :
         /\ r.live
         /\ \E a \in shortResults(liveParams[r.from]) :
              wire' = Append(wire, ResultFrame(r.key, a, FALSE))
    /\ results' = results + 1
    /\ UNCHANGED <<ncVars, connVars, wg, readerPc, faults, srvReqs, srvLive, notified, storeVars,
                   sendVars, ctxDone, liveVars, taskVars, closeVars, panicked>>

\* the peer sends one bad frame: a text message, an envelope that does not
\* decode, or a message whose read fails
ServerBad ==
    /\ ncPc = "ready"
    /\ conn = "open"
    /\ faults < MaxFaults
    /\ \E f \in {TextFrame, GarbageFrame, ReadErrorFrame} : wire' = Append(wire, f)
    /\ faults' = faults + 1
    /\ UNCHANGED <<ncVars, connVars, wg, readerPc, results, srvReqs, srvLive, notified, storeVars,
                   sendVars, ctxDone, liveVars, taskVars, closeVars, panicked>>

\* the peer sends an envelope with an empty id and an error
ServerError ==
    /\ ncPc = "ready"
    /\ conn = "open"
    /\ faults < MaxFaults
    /\ \E q \in Senders : wire' = Append(wire, ErrorFrame(q))
    /\ faults' = faults + 1
    /\ UNCHANGED <<ncVars, connVars, wg, readerPc, results, srvReqs, srvLive, notified, storeVars,
                   sendVars, ctxDone, liveVars, taskVars, closeVars, panicked>>

\* the peer closes the connection with a close status other than normal closure
ServerDrop ==
    /\ ncPc = "ready"
    /\ conn = "open"
    /\ faults < MaxFaults
    /\ conn' = "dropped"
    /\ faults' = faults + 1
    /\ UNCHANGED <<ncVars, dials, readers, msgReader, connCtxDone, connClosed, connMutex, normalCloses,
                   wg, readerPc, wire, results, srvReqs, srvLive, notified, storeVars, sendVars,
                   ctxDone, liveVars, taskVars, closeVars, panicked>>

\* a caller cancels the context it passed to send / Live
CancelCtx(s) ==
    /\ ~ctxDone[s]
    /\ \/ sendPc[s] = "waiting"
       \/ sendPc[s] = "idle" /\ sendKind[s] # "off" /\ ncPc = "ready"
       \/ livePc[s] = "watching"
    /\ ctxDone' = [ctxDone EXCEPT ![s] = TRUE]
    /\ UNCHANGED <<ncVars, connVars, wg, readerPc, srvVars, storeVars, sendVars,
                   liveVars, taskVars, closeVars, panicked>>

\* the context passed to NewClient, the parent of connCtx, is cancelled
CancelParent ==
    /\ ncPc = "ready"
    /\ ~connCtxDone
    /\ faults < MaxFaults
    /\ connCtxDone' = TRUE
    /\ faults' = faults + 1
    /\ UNCHANGED <<ncVars, conn, dials, readers, msgReader, connClosed, connMutex, normalCloses,
                   wg, readerPc, wire, results, srvReqs, srvLive, notified, storeVars, sendVars,
                   ctxDone, liveVars, taskVars, closeVars, panicked>>

\* ------------------------------------------------------------------ specifications

Constructor ==
    \/ NewClient_open
    \/ init_names
    \/ init_rpc
    \/ init_check

Reader ==
    \/ subscribe_start
    \/ subscribe_loop

Dispatch ==
    \E d \in Tasks :
        \/ handleMessage(d)
        \/ dispatch_drop(d)
        \/ dispatch_panic(d)
        \/ handleResult_deliver(d)

Send ==
    \E s \in Senders :
        \/ send_write(s)
        \/ send_wait(s)
        \/ send_cleanup(s)
        \/ CancelCtx(s)

Live ==
    \E s \in Senders :
        \/ Live_register(s)
        \/ Live_watch(s)
        \/ Live_kill(s)

Notify ==
    \/ \E d \in Tasks : handleLiveQuery_deliver(d)
    \/ ServerNotify

Close ==
    \E c \in Closers :
        \/ Close_enter(c)
        \/ Close_wait(c)
        \/ Close_return(c)

Next ==
    \/ Constructor
    \/ Reader
    \/ Dispatch
    \/ Send
    \/ ServerRespond

\* two concurrent queries
Init == InitWith([s \in Senders |-> "query"], {[s \in Senders |-> 0]})

Spec == Init /\ [][Next]_vars

\* the same, with faults of the environment
NextFault ==
    \/ Next
    \/ ServerDrop
    \/ CancelParent

SpecFault == Init /\ [][NextFault]_vars

\* a live query of the first caller, queries of the others
InitLive == InitWith([s \in Senders |-> IF s = 1 THEN "live" ELSE "query"], {[s \in Senders |-> 0]})

NextLive ==
    \/ Next
    \/ Live
    \/ Notify

SpecLive == InitLive /\ [][NextLive]_vars

\* a live query, a query and Close
NextClose ==
    \/ Next
    \/ Live
    \/ Close

SpecClose == InitLive /\ [][NextClose]_vars

\* a live query, a query and a server that sends one error without an id
NextError ==
    \/ Next
    \/ Live
    \/ ServerError

SpecError == InitLive /\ [][NextError]_vars

\* two queries and a server that sends one bad frame
NextBad ==
    \/ Next
    \/ ServerBad

SpecBad == Init /\ [][NextBad]_vars

\* one live query with generated parameters, and a server that may answer it
\* with an array of any length
InitParams ==
    InitWith([s \in Senders |-> IF s = 1 THEN "live" ELSE "off"],
             {[s \in Senders |-> IF s = 1 THEN n ELSE 0] : n \in 0..MaxParams})

LiveRemove == \E s \in Senders : Live_remove(s)

NextParams ==
    \/ Next
    \/ Live
    \/ LiveRemove
    \/ ServerRespondShort
    \/ CancelParent

SpecParams == InitParams /\ [][NextParams]_vars

\* goroutines that call the two registries of a client at the same time
RegistryCalls ==
    \E g \in Senders :
        \/ \E key \in Senders, create \in BOOLEAN : liveQueries_get_Load(g, key, create)
        \/ liveQueries_get_Store(g)
        \/ \E key \in keysFor(g) : requests_prepare(g, key)
        \/ \E key \in Keys : LoadAndDelete(g, "requests", key)
        \/ \E key \in Senders : LoadAndDelete(g, "liveQueries", key)
        \/ del_close(g)
        \/ \E reg \in {"requests", "liveQueries"} : reset_begin(g, reg)
        \/ reset_Range(g)
        \/ reset_close(g)
        \/ reset_Delete(g)

InitStore ==
    /\ InitWith([s \in Senders |-> "off"], {[s \in Senders |-> 0]})
    /\ conf = [ns |-> <<"t","_","n","s">>, db |-> <<"d","b","1">>]

SpecStore == InitStore /\ [][RegistryCalls]_vars

\* a client that is never opened, and a random source about to be read for one key
InitKey ==
    /\ InitClient([s \in Senders |-> "off"], {[s \in Senders |-> 0]})
    /\ conf = [ns |-> <<"t","_","n","s">>, db |-> <<"d","b","1">>]
    /\ codecIdle
    /\ rng \in [1..wordsPerKey -> Words]
    /\ requestKey = <<>>
    /\ poolIdle

SpecKey == InitKey /\ [][newRequestKey_call]_vars

\* a client that is never opened, and the reader and the dispatch tasks of response.go
SpecPool == InitStore /\ [][ResponseRead]_vars

\* ------------------------------------------------------------------ claims

\* C1: a send that returns an output (a result or a server error) returns the
\* output of a response whose id is the key prepare minted for that send; no
\* send receives the output of a response that carries another key.
C1_Correlation ==
    \A s \in Senders :
        sendRes[s].kind \in {"ok", "ErrResultWithError"} => sendRes[s].rid = sendKey[s]

\* both sends, with different keys, have returned the output of their response
C1_Witness ==
    /\ sendKey[1] # sendKey[2]
    /\ \A s \in Senders : sendRes[s].kind \in {"ok", "ErrResultWithError"}

\* C2: within one subscription channel the consumer receives the
\* notifications in the order in which their frames arrived on the reader
\* (the server numbers them 1, 2, ... in the order it writes them).
C2_SubscriptionOrder ==
    \A s \in Senders :
        \A i, j \in 1..Len(lqRecv[s]) : i < j => lqRecv[s][i] < lqRecv[s][j]

\* the channels the registries hold
registered == {reqStore[k] : k \in Keys} \cup {lqStore[q] : q \in Senders}

\* C3: when a Close that found the client open returns (with nil, with
\* ErrTimeoutWaitingForGoroutines or with the error of conn.Close), both
\* registries are empty and every channel they held is closed.
C3_CloseClosesChannels ==
    [][\A c \in Closers :
          (/\ closePc[c] # "done"
           /\ closePc'[c] = "done"
           /\ ~(closePc[c] = "idle" /\ connClosed))
          => /\ \A k \in Keys : reqStore'[k] = NoChan
             /\ \A q \in Senders : lqStore'[q] = NoChan
             /\ \A ch \in registered \ {NoChan} : chanState'[ch] = "closed"]_vars

\* a background task of the client exists: the reader, a dispatch task, the
\* cleanup task of a live query
backgroundTask ==
    \/ readerPc \in {"spawned", "running"}
    \/ \E d \in Tasks : taskPc[d] \in {"spawned", "sending"}
    \/ \E s \in Senders : livePc[s] \in {"watching", "killing", "removing"}

\* C4: after the Close that tore the client down has returned nil (the
\* connection context is cancelled and no Close returned an error), no
\* background task of the client exists, at that moment or at any later one.
C4_NoTaskAfterClose ==
    (/\ connCtxDone
     /\ \E c \in Closers : closePc[c] = "done" /\ closeRes[c] = "nil"
     /\ \A c \in Closers : closePc[c] = "done" => closeRes[c] = "nil")
        => ~backgroundTask

\* C5: a Close on a client on which Close was already called returns nil and
\* changes nothing: the connection is not closed again, the context is not
\* cancelled again, the registries, the channels and the wait group are not touched.
C5_SecondCloseNoOp ==
    [][\A c \in Closers :
          (connClosed /\ closePc[c] = "idle" /\ closePc'[c] # "idle")
          => /\ closePc'[c] = "done"
             /\ closeRes'[c] = "nil"
             /\ UNCHANGED <<conn, normalCloses, connCtxDone, connClosed, connMutex,
                            reqStore, lqStore, chanState, wg>>]_vars

\* both closers have returned, the second one from the early return, while a
\* request is still pending
C5_Witness ==
    /\ \A c \in Closers : closePc[c] = "done"
    /\ \E c \in Closers : closeRes[c] = "nil"
    /\ connCtxDone
    /\ normalCloses = 1
    /\ \E s \in Senders : sendPc[s] = "waiting"

\* C6: when NewClient returns ErrInvalidNamespaceName or ErrInvalidDatabaseName,
\* no websocket connection has been dialed and no reader task started.
C6_InvalidNameBeforeIO ==
    ncErr \in {"ErrInvalidNamespaceName", "ErrInvalidDatabaseName"}
        => dials = 0 /\ readers = 0 /\ readerPc = "none"

\* C7: when the reader has stopped on the close status the peer sent (not
\* normal closure) and the connection context is not cancelled, a reconnect
\* has been attempted: a second dial was made.
C7_ReconnectOnUnexpectedClose ==
    (readerPc = "exited" /\ conn = "dropped" /\ ~connCtxDone) => dials > 1

\* C8: once the peer has closed the connection unexpectedly and the reader
\* and the dispatch tasks have ended, a send still in flight finds its channel
\* closed (and returns ErrChannelClosed): it does not depend on its caller
\* context to return.
C8_InFlightSeesChannelClosed ==
    \A s \in Senders :
        (/\ sendPc[s] = "waiting"
         /\ conn = "dropped"
         /\ readerPc = "exited"
         /\ \A d \in Tasks : taskPc[d] \in {"unborn", "done"})
        => chanState[ReqChan(s)] = "closed"

\* no dispatch task holds the channel of send s
noOffer(s) == \A d \in Tasks : taskCh[d] # ReqChan(s)

\* the key belongs to a send that returned the context error, and no send
\* that has not returned yet holds it
lateFor(key) ==
    /\ \E s \in Senders :
         sendKey[s] = key /\ sendPc[s] = "done" /\ sendRes[s].kind = "context done"
    /\ \A s \in Senders : sendKey[s] = key => sendPc[s] = "done"

C10_ConnCtxWakesSend ==
    \A s \in Senders :
        (sendPc[s] = "waiting" /\ connCtxDone) => sendWakes(s) # {}

\* C11: a dispatch that has reached its select ends in one of three ways: it
\* hands the value to the receiver, or it drops it on the cancelled connection
\* context, or it drops it on the timeout; it does not fail, and once it has
\* ended it holds no value and no channel to deliver on later.
C11_DispatchHandsOrDrops ==
    [][\A d \in Tasks :
          taskPc[d] = "sending"
          => /\ ~(panicked' /\ ~panicked)
             /\ taskPc'[d] \in {"sending", "done"}
             /\ taskPc'[d] = "done" => taskFrame'[d] = NoFrame /\ taskCh'[d] = NoChan]_vars

\* what the cleanup task of a live query does when the caller context ends
cleanupOrder(s) == <<"del", "kill">> \o [i \in 1..liveParams[s] |-> "removeParam"]

\* C12: the cleanup task of Live, woken by the caller context while the
\* connection context is live, removes the subscription from the registry and
\* closes its channel, then calls Kill, then issues one REMOVE PARAM per
\* generated name, in this order and all of them; woken by the connection
\* context instead it ends at once and does none of these.
C12_LiveCleanupOrder ==
    [][\A s \in Senders :
          /\ Len(liveLog'[s]) <= Len(cleanupOrder(s))
          /\ liveLog'[s] = SubSeq(cleanupOrder(s), 1, Len(liveLog'[s]))
          /\ livePc'[s] = "done" => liveLog'[s] \in {<<>>, cleanupOrder(s)}
          /\ (livePc[s] = "watching" /\ livePc'[s] # "watching")
             => /\ (ctxDone[s] /\ ~connCtxDone)
                   => /\ livePc'[s] = "killing"
                      /\ liveLog'[s] = <<"del">>
                      /\ lqStore'[liveKey(s)] = NoChan
                      /\ chanState'[lqStore[liveKey(s)]] = "closed"
                /\ (connCtxDone /\ ~ctxDone[s])
                   => /\ livePc'[s] = "done"
                      /\ liveLog'[s] = <<>>
                      /\ UNCHANGED <<lqStore, chanState>>]_vars

\* a live query with two generated names whose caller context was cancelled:
\* the cleanup task has run to its end, on a live connection context
C12_Witness ==
    /\ liveParams[1] = 2
    /\ livePc[1] = "done"
    /\ liveLog[1] = <<"del", "kill", "removeParam", "removeParam">>
    /\ chanState[LiveChan(1)] = "closed"
    /\ ~connCtxDone

\* C15: Live, given the response to its query, returns ErrEmptyResponse when
\* the array is empty or its last element holds an empty id, registers the
\* subscription otherwise, and does nothing else, whatever the length of the array.
C15_LiveEmptyResponse ==
    [][\A s \in Senders :
          (livePc[s] = "none" /\ livePc'[s] # "none" /\ sendRes[s].kind = "ok")
          => LET r == sendRes[s].res IN
             /\ ~panicked'
             /\ livePc'[s] \in {"watching", "ErrEmptyResponse"}
             /\ livePc'[s] = "ErrEmptyResponse" <=> (r = <<>> \/ r[Len(r)] = 0)]_vars

\* the send has taken an output from its channel
delivered(s) == sendRes[s].kind \in {"ok", "ErrResultWithError"}

\* C13: a send takes at most one output: once it has one, what it returns
\* does not change, and a further response with the same id, whose dispatch
\* holds the channel of that send, is dropped without a failure.
C13_OneDeliveryPerKey ==
    [][\A s \in Senders :
          delivered(s)
          => /\ sendRes'[s] = sendRes[s]
             /\ \A d \in Tasks :
                  (taskPc[d] = "sending" /\ taskCh[d] = ReqChan(s))
                  => /\ ~(panicked' /\ ~panicked)
                     /\ taskPc'[d] \in {"sending", "done"}]_vars

\* C14: the reset of the pending registry (Close runs it on its return)
\* closes every channel the registry holds and empties the map: len() is 0
\* and get finds no key; a send that was waiting on one of those channels, its
\* caller context live, returns ErrChannelClosed.
C14_ResetClosesPending ==
    [][/\ \A c \in Closers :
            (closePc[c] \in {"waiting", "waited"} /\ closePc'[c] = "done")
            => /\ requests_len(reqStore') = 0
               /\ \A k \in Keys :
                    /\ reqStore'[k] = NoChan
                    /\ reqStore[k] # NoChan => chanState'[reqStore[k]] = "closed"
       /\ \A s \in Senders :
            (/\ sendPc[s] = "waiting" /\ sendPc'[s] # "waiting"
             /\ chanState[ReqChan(s)] = "closed"
             /\ ~ctxDone[s])
            => sendRes'[s].kind = "ErrChannelClosed"]_vars

\* Close has reset the registry while a send was waiting, and the send, its
\* caller context live, has returned ErrChannelClosed
C14_Witness ==
    /\ \E c \in Closers : closePc[c] = "done" /\ closeRes[c] = "nil" /\ connCtxDone
    /\ requests_len(reqStore) = 0
    /\ \E s \in Senders :
         sendPc[s] = "done" /\ ~ctxDone[s] /\ sendRes[s].kind = "ErrChannelClosed"

\* C16: a bad inbound frame does not stop the reader: the reader has ended
\* only if the connection context is cancelled, Close was called or the peer
\* closed the connection, and until then the connection is one it can read from.
C16_BadFrameDoesNotStopReader ==
    (readers > 0 /\ ~connCtxDone /\ ~connClosed /\ conn # "dropped")
        => readerPc \in {"spawned", "running"} /\ conn = "open"

\* the codec on its own: one value is encoded, or one item arrives, and is decoded
NextCodec == cbor_Marshal \/ Receive \/ cbor_Unmarshal
SpecCodec == InitCodec /\ [][NextCodec]_vars

\* C17: encoding a record id whose table is empty returns an error, for the
\* concrete shape (MakeID) and for the constructed shape (NewID, NewULID,
\* NewUUID) alike
C17_EmptyTableFails ==
    (encoded.st = "done" /\ subject.val.k \in {"ID", "newRecordID"} /\ subject.val.s = "")
        => encoded.err # NoErr

\* C19: decoding a datetime accepts an array of one element (seconds) or of two
\* (seconds, nanoseconds) and returns an error for an array of none and of
\* three or more; when it returns an error the target holds what it held
C19_DateTimeDecodeLengths ==
    (decoded.st = "done" /\ subject.target.k = "DateTime")
        => LET data == stripTags(encoded.item)
               n == Len(data.xs)
           IN  /\ (data.t = "array" /\ n \in {1, 2})
                     => /\ decoded.err = NoErr
                        /\ decoded.val = time_Unix(data.xs[1].n, IF n = 2 THEN data.xs[2].n ELSE 0)
               /\ (data.t = "array" /\ (n = 0 \/ n >= 3)) => decoded.err # NoErr
               /\ decoded.err # NoErr => decoded.val = subject.target

\* an array of three elements was refused and the target still holds its time
C19_Witness ==
    /\ decoded.st = "done"
    /\ subject.target = GTime(9, 9)
    /\ stripTags(encoded.item).t = "array"
    /\ Len(stripTags(encoded.item).xs) = 3
    /\ decoded.err = "ErrDataInvalid"
    /\ decoded.val = GTime(9, 9)

\* C20: ZeroAsNone[T] encodes the zero value of T as tag 6 around null and any
\* other value as the value's plain encoding; decoding tag 6 into a new
\* variable leaves the zero value of T in it; and the plain encoding of a non-zero value
\* decodes back to that value
C20_ZeroAsNoneRoundTrip ==
    /\ (encoded.st = "done" /\ subject.val.k = "ZeroAsNone")
          => /\ encoded.err = NoErr
             /\ encoded.item = IF subject.val.xs[1] = zero(subject.val.c)
                                  THEN CTag(CBORTagNone, CNull)
                                  ELSE cborMarshal(subject.val.xs[1])
    /\ (/\ decoded.st = "done" /\ subject.target.k = "ZeroAsNone"
        /\ subject.target.xs[1] = zero(subject.target.c)
        /\ encoded.item = CTag(CBORTagNone, CNull))
          => decoded.err = NoErr /\ decoded.val.xs[1] = zero(subject.target.c)
    /\ (decoded.st = "done" /\ subject.val.k = "ZeroAsNone" /\ subject.val.xs[1] # zero(subject.val.c))
          => decoded.err = NoErr /\ decoded.val.xs[1] = subject.val.xs[1]

\* an identifier as the database sees it: a string, an integer, an array or
\* nil, whatever the width of the Go integer that holds it
RECURSIVE domainValue(_)
domainValue(v) ==
    CASE v.k \in {"int", "int64", "uint64"} -> GInt("integer", v.n)
      [] v.k = "slice" -> GSlice([i \in 1..Len(v.xs) |-> domainValue(v.xs[i])])
      [] OTHER -> v

\* C18: a constructed id encodes as tag 8 around the string table:constructor();
\* a concrete id with a nil identifier encodes as tag 7 around the table; a
\* concrete id with an identifier encodes as tag 8 around [table, identifier],
\* and decoding that form yields the same table and the same identifier
C18_RecordIDEncoding ==
    /\ (encoded.st = "done" /\ subject.val.k = "newRecordID")
          => /\ subject.val.c \in {"rand()", "ulid()", "uuid()"}
             /\ encoded.item = CTag(8, CText(subject.val.s \o ":" \o subject.val.c))
    /\ (encoded.st = "done" /\ subject.val.k = "ID" /\ subject.val.s # "")
          => IF subject.val.xs[1] = GNil
                 THEN encoded.item = CTag(7, CText(subject.val.s))
                 ELSE /\ encoded.item.t = "tag" /\ encoded.item.n = 8
                      /\ encoded.item.xs[1].t = "array"
                      /\ Len(encoded.item.xs[1].xs) = 2
                      /\ encoded.item.xs[1].xs[1] = CText(subject.val.s)
                      /\ encoded.item.xs[1].xs[2] = cborMarshal(subject.val.xs[1])
    /\ (decoded.st = "done" /\ subject.val.k = "ID" /\ subject.val.xs[1] # GNil)
          => /\ decoded.err = NoErr
             /\ decoded.val.s = subject.val.s
             /\ domainValue(decoded.val.xs[1]) = domainValue(subject.val.xs[1])

\* the id person:5 was encoded and decoded into a variable that held old:x,
\* which now holds the table person and the integer 5
C18_Witness ==
    /\ decoded.st = "done"
    /\ subject.val = MakeID("person", GInt("int", 5))
    /\ subject.target = MakeID("old", GString("x"))
    /\ encoded.item = CTag(8, CArr(<<CText("person"), CInt(5)>>))
    /\ decoded.val = MakeID("person", GInt("uint64", 5))

\* the steps of init, in the order of the code
initOrder == <<"signin", "use", "defineNamespace", "defineDatabase">>

\* C21: NewClient returns a client only after sign-in, use, DEFINE NAMESPACE
\* and DEFINE DATABASE have been made in this order and each has succeeded,
\* the first result of each DEFINE with status OK; a DEFINE response without
\* results yields ErrEmptyResponse, one whose first status is not OK yields
\* ErrResponseNotOkay; and after the first step that fails no step is made.
C21_InitOrder ==
    [][/\ Len(initLog') <= Len(initOrder)
       /\ initLog' = SubSeq(initOrder, 1, Len(initLog'))
       /\ ncPc' = "ready" => initLog' = initOrder
       /\ ncPc = "failed" => initLog' = initLog /\ ncPc' = "failed"
       /\ (ncPc \in {"checkNamespace", "checkDatabase"} /\ ncPc' # ncPc /\ initResp.decodes)
             => /\ initResp.status = <<>> => ncPc' = "failed" /\ ncErr' = "ErrEmptyResponse"
                /\ (initResp.status # <<>> /\ initResp.status[1] # "OK")
                      => ncPc' = "failed" /\ ncErr' = "ErrResponseNotOkay"
                /\ ncPc' # "failed" => initResp.status # <<>> /\ initResp.status[1] = "OK"]_vars

\* DEFINE DATABASE was answered with a status other than OK, after the three
\* steps before it had succeeded
C21_Witness ==
    /\ ncPc = "failed"
    /\ ncErr = "ErrResponseNotOkay"
    /\ initLog = initOrder

\* C22: a notification dispatch that holds the channel its lookup returned
\* never sends on it after the remove of the subscription has closed it: no
\* step is a send on a closed subscription channel.
C22_NoSendAfterRemove ==
    [][\A d \in Tasks :
          (taskPc[d] = "sending" /\ taskCh[d].type = "live" /\ chanState[taskCh[d]] = "closed")
          => ~(panicked' /\ ~panicked)]_vars

\* a goroutine is in the middle of removing the channel: it has taken it out
\* of the registry, or is about to delete the entry it closed
removing(ch) ==
    \E h \in Senders : ops[h].pc \in {"del_close", "reset_close", "reset_Delete"} /\ ops[h].ch = ch

\* C23: a subscription id maps to at most one channel: the channel a
\* get(id, create = true) has returned is the one the registry holds for the
\* id (the one a lookup of the dispatcher finds) until a remove of the id, so
\* concurrent calls for the same absent id all return the same channel.
C23_OneChannelPerId ==
    \A g \in Senders :
        (/\ ops[g].pc = "idle" /\ ops[g].op = "get"
         /\ chanState[ops[g].ret] = "open"
         /\ ~removing(ops[g].ret))
        => lqStore[ops[g].key] = ops[g].ret

\* C25: cleanup(key) of the pending registry and remove(id) of the
\* subscription registry take the entry out and close its channel; a call that
\* finds no entry (a second call, an unknown key) changes nothing; and no
\* call, also one that runs at the same time as reset(), closes a channel that
\* is closed already.
C25_RemoveIdempotent ==
    [][/\ ~(panicked' /\ ~panicked)
       /\ \A g \in Senders :
            /\ (ops[g].pc = "idle" /\ ops'[g].calls > ops[g].calls /\ ops'[g].op = "del")
                  => IF storeOf(ops'[g].reg)[ops'[g].key] = NoChan
                     THEN ops'[g].pc = "idle" /\ UNCHANGED <<reqStore, lqStore, chanState>>
                     ELSE /\ ops'[g].ch = storeOf(ops'[g].reg)[ops'[g].key]
                          /\ (IF ops'[g].reg = "requests" THEN reqStore' ELSE lqStore')[ops'[g].key] = NoChan
            /\ (ops[g].pc = "del_close" /\ ops'[g].pc = "idle")
                  => chanState'[ops[g].ch] = "closed"]_vars

\* C24: when a send returns, whatever it returns, its key has no entry in the
\* pending registry, and the entries under the other keys and their channels
\* are as they were.
C24_SendLeavesNoEntry ==
    [][\A s \in Senders :
          (sendPc[s] # "done" /\ sendPc'[s] = "done")
          => /\ reqStore'[sendKey[s]] = NoChan
             /\ \A k \in Keys \ {sendKey[s]} :
                  /\ reqStore'[k] = reqStore[k]
                  /\ reqStore[k] # NoChan => chanState'[reqStore[k]] = chanState[reqStore[k]]]_vars

\* the first send has returned on a failed write and its key is gone, while
\* the second one still waits on its entry
C24_Witness ==
    /\ sendPc[1] = "done"
    /\ sendRes[1].kind = "failed to write to websocket"
    /\ reqStore[sendKey[1]] = NoChan
    /\ sendPc[2] = "waiting"
    /\ reqStore[sendKey[2]] = ReqChan(2)
    /\ chanState[ReqChan(2)] = "open"


\* the dispatch tasks that hold the buffer read handed to handleMessage
holdsBuffer == {d \in Tasks : taskPc[d] = "spawned"}

\* C26: every buffer taken from the pool on the read path is put back exactly
\* once, on success and on every error path: at any time the buffers taken and
\* not yet put back are exactly those a dispatch task still holds, and a task
\* puts its buffer back once
C26_BuffersReturned ==
    [][/\ buffers'.gets = buffers'.puts + Cardinality(holdsBuffer')
       /\ buffers'.puts - buffers.puts = Cardinality(holdsBuffer \ holdsBuffer')]_vars


\* C27: Close closes the connection with normal closure, cancels the
\* connection context, resets both registries and only then waits for the
\* background tasks: from the moment Close begins to wait the connection is
\* closed, the context is cancelled, both registries are empty and every
\* channel they held is closed.
C27_CloseOrder ==
    [][\A c \in Closers :
          closePc'[c] \in {"waiting", "waited"}
          => /\ conn' = "closed"
             /\ normalCloses' = 1
             /\ connCtxDone'
             /\ \A k \in Keys : reqStore'[k] = NoChan
             /\ \A q \in Senders : lqStore'[q] = NoChan
             /\ \A ch \in registered \ {NoChan} : chanState'[ch] = "closed"]_vars


C29_UnknownNotificationDropped ==
    [][\A d \in Tasks :
          (/\ taskPc[d] = "spawned"
           /\ taskPc'[d] # "spawned"
           /\ isNotification(taskFrame[d])
           /\ lqStore[taskFrame[d].lq] = NoChan)
          => /\ taskPc'[d] = "done"
             /\ lqRecv' = lqRecv
             /\ lqStore' = lqStore
             /\ chanState' = chanState]_vars

\* the server has sent a notification for a subscription, the reader has read
\* it and its dispatch task has ended, while the registry has no entry for
\* the id and nothing was delivered
C29_Witness ==
    \E q \in Senders :
        /\ notified[q] = 1
        /\ wire = <<>>
        /\ \A d \in Tasks : taskPc[d] \in {"unborn", "done"}
        /\ lqStore[q] = NoChan
        /\ chanState[LiveChan(q)] = "none"
        /\ lqRecv[q] = <<>>


\* a dispatch task takes up a notification for which the registry has no entry
earlyNotification(d) ==
    /\ taskPc[d] = "spawned"
    /\ taskPc'[d] # "spawned"
    /\ isNotification(taskFrame[d])
    /\ lqStore[taskFrame[d].lq] = NoChan

\* C30: the entry of a subscription is created on the first inbound
\* notification for its id when Live has not registered it yet, so that the
\* notification is delivered: the dispatch task that finds no entry creates
\* one and goes on to send on its channel.
C30_CreateOnDemand ==
    [][\A d \in Tasks :
          earlyNotification(d)
          => /\ lqStore'[taskFrame[d].lq] # NoChan
             /\ taskPc'[d] = "sending"
             /\ taskCh'[d] = lqStore'[taskFrame[d].lq]]_vars

\* C30, as the code has it: an entry of the subscription registry is created
\* only by Live, after a live-query response that carries the id; a
\* notification that reaches the dispatcher before that is dropped, its
\* dispatch task ending without a channel and without a delivery.
C30_CreatedByLiveOnly ==
    [][/\ \A q \in Senders :
            (lqStore[q] = NoChan /\ lqStore'[q] # NoChan)
            => \E s \in Senders :
                 /\ livePc[s] = "none" /\ livePc'[s] = "watching"
                 /\ sendRes[s].kind = "ok"
                 /\ liveKey(s) = q
                 /\ lqStore'[q] = LiveChan(s)
       /\ \A d \in Tasks :
            earlyNotification(d)
            => /\ taskPc'[d] = "done"
               /\ taskCh'[d] = NoChan
               /\ lqRecv' = lqRecv]_vars

\* Live has registered its channel after the notifications of the server
\* were read and dropped: the caller holds the channel and has received nothing
C30_Witness ==
    \E s \in Senders :
        /\ sendKind[s] = "live"
        /\ sendRes[s].kind = "ok"
        /\ livePc[s] = "watching"
        /\ lqStore[liveKey(s)] = LiveChan(s)
        /\ notified[liveKey(s)] = MaxNotifs
        /\ wire = <<>>
        /\ \A d \in Tasks : taskPc[d] \in {"unborn", "done"}
        /\ lqRecv[s] = <<>>


\* C31: a response with an empty id and an error is dropped: its dispatch
\* task ends at once, nothing is delivered to a pending request or to a
\* subscription, and neither registry (nor any channel) changes.
C31_ErrorWithoutIdDropped ==
    [][\A d \in Tasks :
          (/\ taskPc[d] = "spawned"
           /\ taskPc'[d] # "spawned"
           /\ taskFrame[d].kind # "garbage"
           /\ taskFrame[d].id = ""
           /\ taskFrame[d].err)
          => /\ taskPc'[d] = "done"
             /\ taskCh'[d] = NoChan
             /\ UNCHANGED <<reqStore, lqStore, chanState, lqRecv, sendRes, sendPc>>]_vars

\* the error frame has been read and its dispatch task has ended while a
\* subscription is registered and a request is pending; the subscriber has
\* received nothing
C31_Witness ==
    /\ faults = 1
    /\ wire = <<>>
    /\ \A d \in Tasks : taskPc[d] \in {"unborn", "done"}
    /\ \E s \in Senders :
         /\ livePc[s] = "watching"
         /\ lqStore[liveKey(s)] = LiveChan(s)
         /\ chanState[LiveChan(s)] = "open"
         /\ lqRecv[s] = <<>>
    /\ \E s \in Senders : sendPc[s] = "waiting"


\* A-Z, a-z, 0-9 as bytes
alphanumeric == (65..90) \cup (97..122) \cup (48..57)

\* C32: for every output of the random source newRequestKey returns a string
\* of exactly 16 characters, each of them from A-Z, a-z, 0-9
C32_RequestKeyShape ==
    requestKey # <<>>
        => /\ Len(requestKey) = 16
           /\ \A i \in 1..Len(requestKey) : requestKey[i] \in alphanumeric

\* a key has been made from random bytes that lie outside the alphabet
C32_Witness ==
    /\ Len(requestKey) = 16
    /\ requestKey[1] = 72                          \* "H", from the byte 255
    /\ requestKey[9] = 65 /\ requestKey[10] = 57   \* "A" and "9", from the bytes 248 and 247


\* C33: for every Duration d, of either sign, with or without a sub-second
\* part, decode(encode(d)) = d; an empty array decodes to the zero duration,
\* an array of one element to whole seconds, and an array of more than two
\* elements is an error that leaves the target as it was
C33_DurationRoundTrip ==
    (decoded.st = "done" /\ subject.target.k = "Duration")
        => LET data == stripTags(encoded.item)
               n == Len(data.xs)
           IN  /\ subject.val # GNil => decoded.err = NoErr /\ decoded.val = subject.val
               /\ (data.t = "array" /\ n = 0) => decoded.err = NoErr /\ decoded.val = GDuration(0)
               /\ (data.t = "array" /\ n = 1)
                     => decoded.err = NoErr /\ decoded.val = GDuration(data.xs[1].n * nanosecond)
               /\ (data.t = "array" /\ n > 2)
                     => decoded.err = "ErrDataInvalid" /\ decoded.val = subject.target

\* a negative duration with a sub-second part has been encoded as its seconds
\* and the rest, both negative, and decoded into a target that held another value
C33_Witness ==
    /\ decoded.st = "done"
    /\ subject.val = GDuration(-nanosecond - 5)
    /\ subject.target = GDuration(9)
    /\ encoded.item = CTag(cborTagDuration, CArr(<<CInt(-1), CInt(-5)>>))
    /\ decoded.val = GDuration(-nanosecond - 5)


\* C34: the dispatcher never sends on a pending-request channel that the
\* cleanup of its caller has closed: a dispatch task that found the channel
\* in the registry and stands at the select of handleResult while the
\* channel is closed does not panic on its send.
C34_NoSendAfterCleanup ==
    [][\A d \in Tasks :
          (/\ taskPc[d] = "sending"
           /\ taskCh[d].type = "req"
           /\ chanState[taskCh[d]] = "closed"
           /\ \E s \in Senders : taskCh[d] = ReqChan(s) /\ ctxDone[s] /\ sendPc[s] = "done")
          => ~(~panicked /\ panicked')]_vars


\* the sends that have called prepare and not yet cleanup
inFlight == {s \in Senders : sendPc[s] \in {"waiting", "cleanup"}}

\* C35: prepare never replaces the entry of a request that is still in
\* flight: whatever keys the generator returns, len() is the number of sends
\* that have called prepare and not yet cleanup, and the cleanup of one send
\* does not close the channel of another.
C35_PrepareKeepsInFlight ==
    [][/\ requests_len(reqStore') = Cardinality(inFlight')
       /\ \A s \in Senders :
            (sendPc[s] = "cleanup" /\ sendPc'[s] = "done")
            => \A t \in Senders \ {s} : chanState'[ReqChan(t)] = chanState[ReqChan(t)]]_vars


\* C36: when NewClient has returned an error after the websocket was opened
\* (invalid name, failed sign-in, failed use, failed DEFINE), the connection is
\* closed and the reader task is stopped or has been told to stop by the
\* cancelled connection context: neither outlives the failed constructor.
C36_FailedConstructorCleansUp ==
    (ncPc = "failed" /\ readers > 0)
        => /\ conn # "open"
           /\ readerPc \in {"spawned", "running"} => connCtxDone


\* a Close has returned the error of conn.Close
closeFailed == \E c \in Closers : closeRes[c] = "could not close websocket connection"

\* C37: when Close has failed with the error of closing the connection, the
\* client is not left marked as closed with its context uncancelled and its
\* registries not reset: a Close called after it does not take the early
\* return, it performs the teardown.
C37_FailedCloseCanBeRepeated ==
    [][/\ closeFailed' => ~(connClosed' /\ ~connCtxDone')
       /\ \A c \in Closers :
            (closeFailed /\ ~connCtxDone /\ closePc[c] = "idle" /\ closePc'[c] # "idle")
            => /\ connCtxDone'
               /\ closePc'[c] = "waiting"]_vars


\* C39: the bytes of an inbound frame that read hands to the dispatcher are
\* never in a buffer that is already back in the pool, and no later read
\* overwrites them while the task still holds them: the buffer of a task is
\* not in the pool and holds the message read for that task, and what the
\* task decodes is that message.
C39_BytesNotInPooledBuffer ==
    \A d \in Tasks :
        /\ pool.view[d] # 0
              => /\ pool.view[d] \notin pool.free
                 /\ pool.data[pool.view[d]] = pool.msg[d]
        /\ pool.got[d] # 0 => pool.got[d] = pool.msg[d]

====
